---- MODULE Spec2Model ----
(***************************************************************************)
(* A model of the domovoy runtime: the Home Assistant websocket client     *)
(* (plugins/hass/api.py), the entity cache of HassCore                      *)
(* (plugins/hass/core.py), the app engine (core/engine/engine.py), the      *)
(* callback register and the event bus (core/services).                     *)
(*                                                                          *)
(* The runtime is a single-threaded asyncio program: an action of the model *)
(* is the code a task runs between two suspension points.                   *)
(***************************************************************************)
EXTENDS Integers, Sequences, FiniteSets, TLC

None == "None"
\* a missing snapshot (last_updated values start at 1)
NoState == 0

\* ---------------------------------------------------------------- bounds
EntityIds == {"light.k", "light.m"}
MaxTs == 3
MaxFrames == 2
MaxCommands == 3
AppNames == {"app1", "app2"}
MaxInstances == 2
MaxConnections == 2
MaxCallbacks == 2
EventNames == {"a", "b", "state_changed=light.k"}
\* the apps whose callbacks are followed
CallbackApps == {"app1"}
\* the number of listen_state / listen_event calls of the apps
MaxListeners == 1
\* the number of events published to listeners
MaxPublished == 2
\* the last time, in steps of half a second
MaxTime == 4
\* the duration an app passes to wait_for_state_to_be: one second
WaitDuration == 2
\* the half second that state_callback adds to its sleep
SleepMargin == 1
\* the states an app waits for
TargetStates == {"on"}
\* the values of an entity's state and of an attribute of it
StateValues == {"on", "off"}
AttributeValues == {"low", "high"}
\* the attribute names an app passes to listen_attribute
ListenedAttributes == {"state", "brightness", "all"}
\* the source files of the apps directory, and the file that defines each app
Files == {"lib.py", "one_apps.py", "two_apps.py"}
AppFile == [a \in AppNames |-> IF a = "app1" THEN "one_apps.py" ELSE "two_apps.py"]
\* the register_app tasks that were created and have not run yet
MaxRegisterTasks == 1
\* file changes that the tracker processes in a run
MaxFileChanges == 2
\* calls of run_at and run_every in a run
MaxScheduleCalls == 2
\* dials that fail in a run
MaxDials == 2
\* gathers that publish_event makes in a run
MaxGathers == 1
\* the lists of event names an app passes to listen_event
EventLists == {<<"a">>, <<"a", "b">>, <<"a", "a", "b">>}

\* the paths the watcher sees events on
WatchedPaths == {"lib.py", "one_apps.py", "notes.txt"}
\* the interval of the watcher's timers, in steps of a quarter of a second
DebounceInterval == 2
\* the events the watcher sees in a run, and the last time of the watcher's clock
MaxWatcherEvents == 3
MaxWatcherTime == 4

\* the event frames Home Assistant sends for the trigger of an app in a run
MaxTriggerEvents == 2

\* the runs of the callback of run_daily_on_sun_event in a run
MaxSunRuns == 2

\* the depth at which the interpreter ends a recursion with RecursionError
\* (sys.getrecursionlimit() is 1000); any limit above the number of files tells a
\* recursion over a cycle from one over an acyclic graph
MaxRecursionDepth == 5

VARIABLES
    \* DependencyTracker.__build_recursive_list_of_imports_from_node / _importers_of_node
    closure_records,      \* the records of a tracker: imports and imported_by of each file
    closure_call,         \* the call in progress: its state, its direction and its root
    closure_stack,        \* the frames of the recursion, the innermost last
    closure_result,       \* the list that the outermost call returned
    \* CallbacksPlugin.run_daily_on_sun_event
    sun_runs,             \* the calls of the user callback: the id of the job, and whether
                          \* the id that run_daily_on_sun_event returned was cancelled
    \* Home Assistant as the client sees it over a restart
    hass_run,             \* "up", "stopping", "down" or "starting"
    \* HassWebsocketApi and HassPlugin.listen_trigger: the trigger of one app
    listen_trigger_call,  \* the listen_trigger call of the app and where it is
    trigger_commands,     \* the commands sent for it: type, future, and whether Home
                          \* Assistant has answered; the id of command i is i + 1
    trigger_frames,       \* the frames of the socket that the reader has not read yet
    trigger_subscribed,   \* Home Assistant holds the subscription
    trigger_events_sent,  \* the event frames Home Assistant has sent
    api_event_callbacks,  \* the ids in HassWebsocketApi.__event_callbacks
    trigger_reader,       \* the reader: "reading", or "in_callback" under wait_for
    trigger_callback,     \* the listen_trigger_callback call the reader awaits
    trigger_dropped,      \* the event frames the reader dropped for want of a callback
    trigger_ends,         \* how the listen_trigger_callback calls ended
    \* ReloadPythonFileWatcher
    watcher_now,          \* the time, in steps of a quarter of a second
    timers,               \* the threading.Timer objects the watcher made
    timer_per_file,       \* path -> the timer the watcher keeps for it, 0 for none
    watcher_events,       \* the calls of __process_event: path, kind and time
    notified,             \* the calls of the load_or_reload callback: path, kind and time
    \* HassCore: the entity cache and the frames of the socket that feed it
    entity_state_cache,   \* entity_id -> last_updated of the cached snapshot, or NoState
    hass_last_updated,    \* Home Assistant's own last_updated per entity (0: never set)
    hass_present,         \* whether Home Assistant currently has the entity
    ws_frames,            \* frames Home Assistant has sent that the reader has not read yet
    get_states_pending,   \* setup() awaits the response of get_states
    setup_result,         \* the get_states result handed to setup(), before setup() resumes
    \* HassWebsocketApi: one instance, that is one connection
    api_pc,               \* where __connect_and_listen is
    is_running,           \* HassWebsocketApi.__is_running
    current_op_id,        \* HassWebsocketApi.__current_op_id
    in_flight_ops,        \* op id -> future (index into futures)
    cmd_queue,            \* outbound queue: the op ids of the queued commands
    futures,              \* every future __send_command created, in creation order
    hass_received,        \* op ids Home Assistant has received and not answered yet
    ws_results,           \* result frames sent by Home Assistant, not read yet
    dial_attempts,        \* the dials __connect_and_listen started after the first one
    \* AppEngine
    app_registrations,    \* the names in AppEngine.__app_registrations
    active_instance,      \* app name -> AppRegistration.active_instance (a wrapper, 0: None)
    wrappers,             \* every AppWrapper built so far
    sync,                 \* the call that runs next without a suspension point in between
    start_tasks,          \* __start_app tasks created by asyncio.gather and not run yet
    terminations,         \* __terminate_app calls in progress
    apps_by_path,         \* AppEngine.__apps_by_path: path -> the registrations made from it
    register_tasks,       \* the register_app tasks created by registration.register_app
    register_rejected,    \* the names of the register_app calls that were rejected
    registration_id,      \* app name -> the AppRegistration object that
                          \* __app_registrations holds or held last for it (0: none yet)
    \* DependencyTracker
    fs_imports,           \* file -> the files of the apps directory that its source imports
    imports,              \* file -> ModuleTrackingRecord.imports of its record
    imported_by,          \* file -> ModuleTrackingRecord.imported_by of its record
    module,               \* file -> whether ModuleTrackingRecord.module of its record is set
    file_task,            \* the process_file_changed task that awaits a termination
    file_changes,         \* the files whose changes were processed, in order
    last_change,          \* the file of the last change, and the lists that were handed
                          \* to __load_nodes and __reload_nodes for it
    \* HassCore, as the engine sees it
    reload_reason,        \* HassCore.__reload_reason
    hass_api_pc,          \* the state of the HassWebsocketApi HassCore currently holds
    conn_id,              \* how many HassWebsocketApi instances HassCore has created
    receiver_pc,          \* what the reader of the connection is awaiting
    handlers,             \* __connection_state_updated and start_apps tasks in progress
    cache_loaded_conn,    \* the connection whose get_states result setup() loaded last
    \* CallbackRegister, AppWrapper's callback tables, EventListener and the scheduler
    callbacks,            \* every registration add_*_callback made: its id is its index
    event_callbacks,      \* the ids in AppWrapper.event_callbacks of their wrapper
    scheduler_callbacks,  \* the ids in AppWrapper.scheduler_callbacks of their wrapper
    is_registered,        \* the ids whose registration has is_registered set
    callback_to_wrapper_mappings, \* the keys of CallbackRegister.__callback_to_wrapper_mappings
    registered_callbacks_by_id,   \* the keys of EventListener.__registered_callbacks_by_id
    registered_callbacks_by_event, \* event name -> the ids subscribed to it
    jobs,                 \* the job ids in the scheduler's job store
    register_calls,       \* callback id -> how often it was handed to add_job / add_listener
    invocations,          \* callback invocations that were dispatched and have not run yet
    \* history
    last_body_run,        \* the callback body that ran last, with the app's status then
    cancelled,            \* the ids for which the owner's cancel_callback returned
    cancel_raised,        \* the ids for which cancel_callback raised
    running_before_stop,  \* the apps that were RUNNING when homeassistant_stop arrived
    hass_started_handled, \* homeassistant_started was handled after that stop
    active_at_loss,       \* the wrappers that were active at an unexpected socket loss
                          \* and have not become TERMINATED since
    \* CallbacksPlugin: entity listeners
    listener_call,        \* the last state_changed event handed to listen_attribute_callback
                          \* and the call of the user callback it made, if any
    listeners,            \* the listen_state / listen_event calls made: the callback ids they
                          \* got and their arguments
    listener_tasks,       \* the calls of the listeners' callbacks that are scheduled on the
                          \* event loop
    task_seq,             \* the number of calls scheduled so far
    published,            \* the number of events published to listeners so far
    late_jobs,            \* the scheduler callbacks whose start time is further back than
                          \* the scheduler's misfire grace time
    listener_runs,        \* the calls of user callbacks made by the listeners, in order
    \* HassPlugin.wait_for_state_to_be
    now,                  \* the time, in steps of the margin that state_callback adds to its sleep
    wait_entity,          \* the cached state of the entity waited for: state and last_changed
    wait_duration,        \* the duration passed to wait_for_state_to_be, 0 for None
    wait_future,          \* the future of the wait: "none", "pending" or "done"
    wait_sleepers,        \* the calls of state_callback that are in asyncio.sleep
    wait_completion,      \* the cached state of the entity when the future was completed
    \* HassCore: the fan-out of state_changed
    fanned_out,           \* the state_changed=<entity_id> event published for the last frame
    \* HassWebsocketApi: the subscription callbacks
    callback_outcome,     \* how the last call of a subscription callback ended, and whether
                          \* the reader went on after it
    \* EventListener.publish_event
    gathers,              \* the gathers publish_event made: the event, the subscribers
                          \* it had then, and the state of the gather's future
    gather_calls,         \* the calls of subscribers that the gathers run as tasks
    \* CallbacksPlugin.run_at and run_every
    schedule_calls,       \* the calls of run_at and run_every, and whether they raised
    \* HassPlugin.call_service
    service_call,         \* the call of the facade that an app is in, or NoCall
    service_commands,     \* the call_service commands sent for it, in order
    \* HassCore: authentication
    auth_rejected         \* the connections on which Home Assistant rejected the authentication

cacheVars == <<entity_state_cache, hass_last_updated, hass_present, ws_frames,
               get_states_pending, setup_result>>

apiVars == <<api_pc, is_running, current_op_id, in_flight_ops, cmd_queue, futures,
             hass_received, ws_results>>

dialVars == <<dial_attempts>>

registryVars == <<apps_by_path, register_tasks, register_rejected, registration_id>>

trackerVars == <<fs_imports, imports, imported_by, module, file_task, file_changes, last_change>>

engineVars == <<app_registrations, active_instance, wrappers, sync, start_tasks,
                terminations, registryVars>>

hassVars == <<reload_reason, hass_api_pc, conn_id, receiver_pc, handlers, cache_loaded_conn>>

callbackVars == <<callbacks, event_callbacks, scheduler_callbacks, is_registered,
                  callback_to_wrapper_mappings, registered_callbacks_by_id,
                  registered_callbacks_by_event, jobs, register_calls, invocations>>

callbackHistoryVars == <<last_body_run, cancelled, cancel_raised>>

historyVars == <<running_before_stop, hass_started_handled, active_at_loss>>

listenerVars == <<listener_call, listeners, listener_tasks, task_seq, published, late_jobs,
                  listener_runs>>

waitVars == <<now, wait_entity, wait_duration, wait_future, wait_sleepers, wait_completion>>

pluginVars == <<listenerVars, waitVars>>

fanoutVars == <<fanned_out>>

apiHistoryVars == <<callback_outcome>>

authHistoryVars == <<auth_rejected>>

gatherVars == <<gathers, gather_calls>>

scheduleVars == <<schedule_calls>>

serviceVars == <<service_call, service_commands>>

watcherVars == <<watcher_now, timers, timer_per_file, watcher_events, notified>>

subscriptionVars == <<listen_trigger_call, trigger_commands, trigger_frames, trigger_subscribed, trigger_events_sent, api_event_callbacks, trigger_reader, trigger_callback, trigger_dropped, trigger_ends>>

hassSideVars == <<hass_run>>

sunVars == <<sun_runs>>

closureVars == <<closure_records, closure_call, closure_stack, closure_result>>

vars == <<cacheVars, apiVars, engineVars, hassVars, callbackVars, callbackHistoryVars,
          historyVars, pluginVars, fanoutVars, apiHistoryVars, authHistoryVars, gatherVars,
    serviceVars,
    dialVars,
    scheduleVars,
    trackerVars,
    watcherVars,
    subscriptionVars,
    hassSideVars,
    sunVars,
    closureVars>>

\* the variables an action of one component leaves alone
notCache == <<apiVars, engineVars, hassVars, callbackVars, callbackHistoryVars, historyVars,
              pluginVars, apiHistoryVars, authHistoryVars, gatherVars,
    serviceVars,
    dialVars,
    scheduleVars,
    trackerVars,
    watcherVars,
    subscriptionVars,
    hassSideVars,
    sunVars,
    closureVars>>
notReader == <<cacheVars, engineVars, hassVars, callbackVars, callbackHistoryVars, historyVars,
               pluginVars, fanoutVars, authHistoryVars, gatherVars,
    serviceVars,
    dialVars,
    scheduleVars,
    trackerVars,
    watcherVars,
    subscriptionVars,
    hassSideVars,
    sunVars,
    closureVars>>
notApi == <<notReader, apiHistoryVars>>
notHass == <<cacheVars, apiVars, pluginVars, fanoutVars, apiHistoryVars, gatherVars,
    serviceVars,
    dialVars,
    scheduleVars,
    trackerVars,
    watcherVars,
    subscriptionVars,
    hassSideVars,
    sunVars,
    closureVars>>
notCallbacks == <<notHass, authHistoryVars>>
notPlugins == <<cacheVars, apiVars, engineVars, hassVars, callbackVars, callbackHistoryVars,
                historyVars, fanoutVars, apiHistoryVars, authHistoryVars, gatherVars,
    serviceVars,
    dialVars,
    scheduleVars,
    trackerVars,
    watcherVars,
    subscriptionVars,
    hassSideVars,
    sunVars,
    closureVars>>
callbackTables == <<event_callbacks, scheduler_callbacks, is_registered,
                    callback_to_wrapper_mappings, registered_callbacks_by_id,
                    registered_callbacks_by_event, jobs, register_calls>>
notWaits == <<cacheVars, apiVars, engineVars, hassVars, callbackHistoryVars, historyVars,
              invocations, listener_call, fanoutVars, apiHistoryVars, authHistoryVars,
              gatherVars,
    serviceVars,
    dialVars,
    scheduleVars,
    trackerVars,
    watcherVars,
    subscriptionVars,
    hassSideVars,
    sunVars,
    closureVars>>
notGather == <<cacheVars, apiVars, engineVars, hassVars, callbackVars, callbackHistoryVars,
               historyVars, pluginVars, fanoutVars, apiHistoryVars, authHistoryVars,
    serviceVars,
    dialVars,
    scheduleVars,
    trackerVars,
    watcherVars,
    subscriptionVars,
    hassSideVars,
    sunVars,
    closureVars>>
notService == <<cacheVars, apiVars, engineVars, hassVars, callbackVars, callbackHistoryVars,
          historyVars, pluginVars, fanoutVars, apiHistoryVars, authHistoryVars, gatherVars,
    dialVars,
    scheduleVars,
    trackerVars,
    watcherVars,
    subscriptionVars,
    hassSideVars,
    sunVars,
    closureVars>>
notDial == <<cacheVars, apiVars, engineVars, hassVars, callbackVars, callbackHistoryVars,
          historyVars, pluginVars, fanoutVars, apiHistoryVars, authHistoryVars, gatherVars,
    serviceVars,
    scheduleVars,
    trackerVars,
    watcherVars,
    subscriptionVars,
    hassSideVars,
    sunVars,
    closureVars>>
notSchedule == <<cacheVars, apiVars, engineVars, hassVars, callbackVars, callbackHistoryVars,
          historyVars, pluginVars, fanoutVars, apiHistoryVars, authHistoryVars, gatherVars,
    serviceVars,
    dialVars,
    trackerVars,
    watcherVars,
    subscriptionVars,
    hassSideVars,
    sunVars,
    closureVars>>
notScheduleCallbacks == <<cacheVars, apiVars, engineVars, hassVars, historyVars, pluginVars,
    fanoutVars, apiHistoryVars, authHistoryVars, gatherVars, serviceVars, dialVars,
    trackerVars,
    watcherVars,
    subscriptionVars,
    hassSideVars,
    sunVars,
    closureVars>>
notTracker == <<cacheVars, apiVars, engineVars, hassVars, callbackVars, callbackHistoryVars,
          historyVars, pluginVars, fanoutVars, apiHistoryVars, authHistoryVars, gatherVars,
    serviceVars,
    dialVars,
    scheduleVars,
    watcherVars,
    subscriptionVars,
    hassSideVars,
    sunVars,
    closureVars>>
notHassTracker == <<cacheVars, apiVars, pluginVars, fanoutVars, apiHistoryVars,
    authHistoryVars, gatherVars, serviceVars, dialVars, scheduleVars,
    watcherVars,
    subscriptionVars,
    hassSideVars,
    sunVars,
    closureVars>>
notWatcher == <<cacheVars, apiVars, engineVars, hassVars, callbackVars, callbackHistoryVars,
          historyVars, pluginVars, fanoutVars, apiHistoryVars, authHistoryVars, gatherVars,
    serviceVars,
    dialVars,
    scheduleVars,
    trackerVars,
    subscriptionVars,
    hassSideVars,
    sunVars,
    closureVars>>
notSubscription == <<cacheVars, apiVars, engineVars, hassVars, callbackVars, callbackHistoryVars,
          historyVars, pluginVars, fanoutVars, apiHistoryVars, authHistoryVars, gatherVars,
    serviceVars,
    dialVars,
    scheduleVars,
    trackerVars,
    watcherVars,
    hassSideVars,
    sunVars,
    closureVars>>
notHassSide == <<cacheVars, apiVars, engineVars, hassVars, callbackVars, callbackHistoryVars,
          historyVars, pluginVars, fanoutVars, apiHistoryVars, authHistoryVars, gatherVars,
    serviceVars,
    dialVars,
    scheduleVars,
    trackerVars,
    watcherVars,
    subscriptionVars,
    sunVars,
    closureVars>>
notEngineHassSide == <<cacheVars, apiVars, pluginVars, fanoutVars, apiHistoryVars,
    authHistoryVars, gatherVars, serviceVars, dialVars, scheduleVars, trackerVars,
    watcherVars, subscriptionVars, sunVars, closureVars, callbackVars,
    callbackHistoryVars>>
notSun == <<cacheVars, apiVars, engineVars, hassVars, callbackVars, callbackHistoryVars,
          historyVars, pluginVars, fanoutVars, apiHistoryVars, authHistoryVars, gatherVars,
    serviceVars,
    dialVars,
    scheduleVars,
    trackerVars,
    watcherVars,
    subscriptionVars,
    hassSideVars,
    closureVars>>
notCallbacksSun == <<cacheVars, apiVars, pluginVars, fanoutVars, apiHistoryVars,
    authHistoryVars, gatherVars, serviceVars, dialVars, scheduleVars, trackerVars,
    watcherVars, subscriptionVars, hassSideVars, closureVars>>
notClosure == <<cacheVars, apiVars, engineVars, hassVars, callbackVars, callbackHistoryVars,
          historyVars, pluginVars, fanoutVars, apiHistoryVars, authHistoryVars, gatherVars,
    serviceVars,
    dialVars,
    scheduleVars,
    trackerVars,
    watcherVars,
    subscriptionVars,
    hassSideVars,
    sunVars>>
notListeners == <<notWaits, waitVars>>
notEngine == <<notCallbacks, callbackVars, callbackHistoryVars>>

\* ------------------------------------------------------------------------
\* HassCore entity cache (plugins/hass/core.py)
\* ------------------------------------------------------------------------

\* __update_entity_state_cache: the snapshot is stored unconditionally
update_entity_state_cache(cache, entity_id, last_updated) ==
    [cache EXCEPT ![entity_id] = last_updated]

\* __pop_entity_state_cache: dict.pop of a missing key raises KeyError, which the
\* caller (__all_events_callback) logs; the cache is left as it was
pop_entity_state_cache(cache, entity_id) ==
    [cache EXCEPT ![entity_id] = NoState]

\* __process_state_changed
process_state_changed(cache, entity_id, new_state) ==
    IF new_state = NoState
    THEN pop_entity_state_cache(cache, entity_id)
    ELSE IF cache[entity_id] = NoState
    THEN update_entity_state_cache(cache, entity_id, new_state)
    ELSE IF cache[entity_id] > new_state
    THEN cache
    ELSE IF cache[entity_id] = new_state
    THEN cache
    ELSE update_entity_state_cache(cache, entity_id, new_state)

\* setup(): every state of the get_states result is written into the cache
setup_load(cache, states) ==
    [e \in EntityIds |-> IF states[e] # NoState
                         THEN update_entity_state_cache(cache, e, states[e])[e]
                         ELSE cache[e]]

\* __all_events_callback after __process_state_changed: the state_changed=<entity_id>
\* event it publishes, with the snapshot that was cached when the frame was read;
\* nothing is published when __process_state_changed raised
publish_state_changed(cache, entity_id, new_state) ==
    IF new_state = NoState /\ cache[entity_id] = NoState
    THEN <<>>
    ELSE <<[entity_id |-> entity_id, new_state |-> new_state, cached |-> cache[entity_id]]>>

\* Home Assistant updates an entity and sends the state_changed event
HassStateChanged(e) ==
    /\ hass_last_updated[e] < MaxTs
    /\ Len(ws_frames) < MaxFrames
    /\ hass_last_updated' = [hass_last_updated EXCEPT ![e] = @ + 1]
    /\ hass_present' = [hass_present EXCEPT ![e] = TRUE]
    /\ ws_frames' = Append(ws_frames, [type |-> "event", entity_id |-> e,
                                       new_state |-> hass_last_updated[e] + 1])
    /\ UNCHANGED <<entity_state_cache, get_states_pending, setup_result>>
    /\ UNCHANGED <<fanoutVars, notCache>>

\* Home Assistant sends a state_changed event whose new_state is older than the
\* state it sent before
HassStaleStateChanged(e) ==
    /\ hass_present[e]
    /\ hass_last_updated[e] > 1
    /\ Len(ws_frames) < MaxFrames
    /\ ws_frames' = Append(ws_frames, [type |-> "event", entity_id |-> e,
                                       new_state |-> hass_last_updated[e] - 1])
    /\ UNCHANGED <<entity_state_cache, hass_last_updated, hass_present, get_states_pending,
                   setup_result>>
    /\ UNCHANGED <<fanoutVars, notCache>>

\* Home Assistant removes an entity: state_changed with new_state = null
HassEntityRemoved(e) ==
    /\ hass_present[e]
    /\ Len(ws_frames) < MaxFrames
    /\ hass_present' = [hass_present EXCEPT ![e] = FALSE]
    /\ ws_frames' = Append(ws_frames, [type |-> "event", entity_id |-> e,
                                       new_state |-> NoState])
    /\ UNCHANGED <<entity_state_cache, hass_last_updated, get_states_pending, setup_result>>
    /\ UNCHANGED <<fanoutVars, notCache>>

\* setup() sends get_states (initial load, or the reload of start_apps)
SetupGetStates ==
    /\ ~get_states_pending
    /\ setup_result = <<>>
    /\ get_states_pending' = TRUE
    /\ UNCHANGED <<entity_state_cache, hass_last_updated, hass_present, ws_frames, setup_result>>
    /\ UNCHANGED <<fanoutVars, notCache>>

\* Home Assistant answers get_states with its current states
HassGetStatesResult ==
    /\ get_states_pending
    /\ \A i \in 1..Len(ws_frames) : ws_frames[i].type # "result"
    /\ Len(ws_frames) < MaxFrames
    /\ ws_frames' = Append(ws_frames,
          [type |-> "result",
           states |-> [e \in EntityIds |-> IF hass_present[e] THEN hass_last_updated[e] ELSE NoState]])
    /\ UNCHANGED <<entity_state_cache, hass_last_updated, hass_present,
                   get_states_pending, setup_result>>
    /\ UNCHANGED <<fanoutVars, notCache>>

\* hass_message_receiver reads a state_changed event frame: the subscription callback
\* (__all_events_callback) is awaited in the reader itself
ReceiverStateChanged ==
    /\ ws_frames # <<>>
    /\ Head(ws_frames).type = "event"
    /\ entity_state_cache' = process_state_changed(entity_state_cache,
                                  Head(ws_frames).entity_id, Head(ws_frames).new_state)
    /\ ws_frames' = Tail(ws_frames)
    /\ fanned_out' = publish_state_changed(entity_state_cache, Head(ws_frames).entity_id,
                                           Head(ws_frames).new_state)
    /\ UNCHANGED <<hass_last_updated, hass_present, get_states_pending, setup_result>>
    /\ UNCHANGED notCache

\* hass_message_receiver reads the result frame of get_states: future.set_result only
\* schedules the task that awaits it; the reader goes on with the next frame
ReceiverGetStatesResult ==
    /\ ws_frames # <<>>
    /\ Head(ws_frames).type = "result"
    /\ setup_result' = <<Head(ws_frames).states>>
    /\ get_states_pending' = FALSE
    /\ ws_frames' = Tail(ws_frames)
    /\ UNCHANGED <<entity_state_cache, hass_last_updated, hass_present>>
    /\ UNCHANGED <<fanoutVars, notCache>>

\* setup() resumes with the result of get_states
SetupResume ==
    /\ setup_result # <<>>
    /\ entity_state_cache' = setup_load(entity_state_cache, setup_result[1])
    /\ setup_result' = <<>>
    /\ UNCHANGED <<hass_last_updated, hass_present, ws_frames, get_states_pending>>
    /\ UNCHANGED <<fanoutVars, notCache>>


\* ------------------------------------------------------------------------
\* HassWebsocketApi (plugins/hass/api.py)
\* ------------------------------------------------------------------------

FirstOpId == 2
\* the id of the subscribe_events command of the connection, which event frames carry
SubscriptionId == 1
\* how a call of a subscription callback ends
CallbackOutcomes == {"returns", "timeout", "raises"}

EmptyMap == [x \in {} |-> 0]

map_set(m, k, v) == [x \in DOMAIN m \cup {k} |-> IF x = k THEN v ELSE m[x]]

map_pop(m, k) == [x \in DOMAIN m \ {k} |-> m[x]]

\* a send that does not advance the id counter
next_op_id_stuck(op_id) == op_id

\* self.__current_op_id += 1
next_op_id(op_id) == op_id + 1

\* the in-flight entry a frame with this id belongs to
in_flight_key(message_id) == message_id

future_done(f) == f.state # "pending"

\* future.set_result / future.set_exception
complete_future(fs, i, state, response_id) ==
    [fs EXCEPT ![i] = [@ EXCEPT !.state = state, !.response_id = response_id]]

\* __connect_and_listen, lines 141-148: every in-flight future that is not done is
\* failed with HassApiConnectionError
fail_in_flight(fs, ops) ==
    [i \in 1..Len(fs) |->
        IF (\E k \in DOMAIN ops : ops[k] = i) /\ ~future_done(fs[i])
        THEN [fs[i] EXCEPT !.state = "connection_error"]
        ELSE fs[i]]

\* __send_command: callable at any time, also before the socket is up and after the
\* connection task has finished
SendCommand ==
    /\ Len(futures) < MaxCommands
    /\ futures' = Append(futures, [op_id |-> current_op_id, state |-> "pending",
                                   response_id |-> 0])
    /\ in_flight_ops' = map_set(in_flight_ops, current_op_id, Len(futures) + 1)
    /\ current_op_id' = next_op_id(current_op_id)
    /\ cmd_queue' = Append(cmd_queue, current_op_id)
    /\ UNCHANGED <<api_pc, is_running, hass_received, ws_results>>
    /\ UNCHANGED notApi

\* the task awaiting a command is cancelled (asyncio.timeout, wait_for): its future
\* is cancelled with it
AwaiterCancelled(i) ==
    /\ i \in 1..Len(futures)
    /\ futures[i].state = "pending"
    /\ futures' = complete_future(futures, i, "cancelled", 0)
    /\ UNCHANGED <<api_pc, is_running, current_op_id, in_flight_ops, cmd_queue,
                   hass_received, ws_results>>
    /\ UNCHANGED notApi

\* __connect_and_listen: the dial succeeded; __prep_for_connection
Connected ==
    /\ api_pc = "dialing"
    /\ api_pc' = "authenticating"
    /\ cmd_queue' = <<>>
    /\ in_flight_ops' = EmptyMap
    /\ UNCHANGED <<is_running, current_op_id, futures, hass_received, ws_results>>
    /\ UNCHANGED notApi

\* __connect_and_listen, lines 98-103: __connect_to_ha raised; after a sleep of one
\* second the loop dials again, whatever __is_running is
DialFailed ==
    /\ api_pc = "dialing"
    /\ dial_attempts < MaxDials
    /\ dial_attempts' = dial_attempts + 1
    /\ UNCHANGED notDial

\* __authenticate returned: the reader and the writer are started
Authenticated ==
    /\ api_pc = "authenticating"
    /\ api_pc' = "listening"
    /\ UNCHANGED <<is_running, current_op_id, in_flight_ops, cmd_queue, futures,
                   hass_received, ws_results>>
    /\ UNCHANGED notApi

\* __authenticate raised HassApiAuthenticationError
AuthenticationFailed ==
    /\ api_pc = "authenticating"
    /\ api_pc' = "exited"
    /\ is_running' = FALSE
    /\ UNCHANGED <<current_op_id, in_flight_ops, cmd_queue, futures, hass_received,
                   ws_results>>
    /\ UNCHANGED notApi

\* the socket closed during __authenticate (ConnectionClosed)
AuthenticationConnectionClosed ==
    /\ api_pc = "authenticating"
    /\ api_pc' = "exited"
    /\ UNCHANGED <<is_running, current_op_id, in_flight_ops, cmd_queue, futures,
                   hass_received, ws_results>>
    /\ UNCHANGED notApi

\* producer_handler: popleft and websocket.send
ProducerSend ==
    /\ api_pc = "listening"
    /\ cmd_queue # <<>>
    /\ cmd_queue' = Tail(cmd_queue)
    /\ hass_received' = hass_received \cup {Head(cmd_queue)}
    /\ UNCHANGED <<api_pc, is_running, current_op_id, in_flight_ops, futures, ws_results>>
    /\ UNCHANGED notApi

\* producer_handler: encode_message raised HassApiParseError
ProducerEncodeFailed ==
    /\ api_pc = "listening"
    /\ cmd_queue # <<>>
    /\ Head(cmd_queue) \in DOMAIN in_flight_ops
    /\ ~future_done(futures[in_flight_ops[Head(cmd_queue)]])
    /\ cmd_queue' = Tail(cmd_queue)
    /\ futures' = complete_future(futures, in_flight_ops[Head(cmd_queue)], "parse_error", 0)
    /\ in_flight_ops' = map_pop(in_flight_ops, Head(cmd_queue))
    /\ UNCHANGED <<api_pc, is_running, current_op_id, hass_received, ws_results>>
    /\ UNCHANGED notApi

\* Home Assistant answers a command it received with a result frame
HassResult(op_id, kind) ==
    /\ op_id \in hass_received
    /\ Len(ws_results) < MaxFrames
    /\ hass_received' = hass_received \ {op_id}
    /\ ws_results' = Append(ws_results, [id |-> op_id, kind |-> kind])
    /\ UNCHANGED <<api_pc, is_running, current_op_id, in_flight_ops, cmd_queue, futures>>
    /\ UNCHANGED notApi

\* Home Assistant sends an event of a subscription
HassEvent ==
    /\ api_pc = "listening"
    /\ Len(ws_results) < MaxFrames
    /\ ws_results' = Append(ws_results, [id |-> SubscriptionId, kind |-> "event"])
    /\ UNCHANGED <<api_pc, is_running, current_op_id, in_flight_ops, cmd_queue, futures,
                   hass_received>>
    /\ UNCHANGED notApi

\* hass_message_receiver, lines 206-271: an event frame; the subscription callback
\* is awaited under wait_for(timeout=5) and returns, is cancelled by the timeout,
\* or raises, and what it raises is logged and raised again, which ends the reader
ReceiverEvent(outcome) ==
    /\ api_pc = "listening"
    /\ ws_results # <<>>
    /\ Head(ws_results).kind = "event"
    /\ ws_results' = Tail(ws_results)
    /\ api_pc' = IF outcome = "raises" THEN "closing" ELSE api_pc
    /\ callback_outcome' = <<[outcome |-> outcome, reader_running |-> api_pc' = "listening"]>>
    /\ UNCHANGED <<is_running, current_op_id, in_flight_ops, cmd_queue, futures,
                   hass_received>>
    /\ UNCHANGED notReader

\* hass_message_receiver, lines 273-317: a frame that is not an event
ReceiverResult ==
    /\ api_pc = "listening"
    /\ ws_results # <<>>
    /\ Head(ws_results).kind # "event"
    /\ ws_results' = Tail(ws_results)
    /\ LET message == Head(ws_results)
           key == in_flight_key(message.id)
       IN IF key \notin DOMAIN in_flight_ops
          THEN UNCHANGED <<api_pc, in_flight_ops, futures>>
          ELSE /\ in_flight_ops' = map_pop(in_flight_ops, key)
               /\ IF future_done(futures[in_flight_ops[key]])
                  THEN UNCHANGED <<api_pc, futures>>
                  ELSE IF message.kind = "error"
                  THEN /\ futures' = complete_future(futures, in_flight_ops[key],
                                                     "command_error", message.id)
                       /\ UNCHANGED api_pc
                  ELSE IF message.kind = "failed"
                  \* set_exception, then set_result on the same future raises
                  \* InvalidStateError: the reader ends
                  THEN /\ futures' = complete_future(futures, in_flight_ops[key],
                                                     "command_error", message.id)
                       /\ api_pc' = "closing"
                  ELSE /\ futures' = complete_future(futures, in_flight_ops[key],
                                                     "result", message.id)
                       /\ UNCHANGED api_pc
    /\ UNCHANGED <<is_running, current_op_id, cmd_queue, hass_received>>
    /\ UNCHANGED notApi

\* the socket is lost: the reader (or the writer) ends
SocketLost ==
    /\ api_pc = "listening"
    /\ api_pc' = "closing"
    /\ ws_results' = <<>>
    /\ hass_received' = {}
    /\ UNCHANGED <<is_running, current_op_id, in_flight_ops, cmd_queue, futures>>
    /\ UNCHANGED notApi

\* stop()
Stop ==
    /\ is_running
    /\ is_running' = FALSE
    /\ api_pc' = IF api_pc = "listening" THEN "closing" ELSE api_pc
    /\ UNCHANGED <<current_op_id, in_flight_ops, cmd_queue, futures, hass_received,
                   ws_results>>
    /\ UNCHANGED notApi

\* __connect_and_listen after asyncio.wait returned: the other task is cancelled and
\* the in-flight futures are failed
ConnectionCleanup ==
    /\ api_pc = "closing"
    /\ api_pc' = "exited"
    /\ futures' = fail_in_flight(futures, in_flight_ops)
    /\ in_flight_ops' = EmptyMap
    /\ UNCHANGED <<is_running, current_op_id, cmd_queue, hass_received, ws_results>>
    /\ UNCHANGED notApi

ApiNext ==
    \/ SendCommand
    \/ \E i \in 1..MaxCommands : AwaiterCancelled(i)
    \/ Connected
    \/ Authenticated
    \/ AuthenticationFailed
    \/ AuthenticationConnectionClosed
    \/ ProducerSend
    \/ ProducerEncodeFailed
    \/ \E op_id \in FirstOpId..(FirstOpId + MaxCommands), kind \in {"success", "error", "failed"} :
          HassResult(op_id, kind)
    \/ ReceiverResult
    \/ SocketLost
    \/ Stop
    \/ ConnectionCleanup

\* the connection with the events of a subscription
ReaderNext ==
    \/ ApiNext
    \/ HassEvent
    \/ \E outcome \in CallbackOutcomes : ReceiverEvent(outcome)

CacheNext ==
    \/ \E e \in EntityIds : HassStateChanged(e)
    \/ \E e \in EntityIds : HassEntityRemoved(e)
    \/ SetupGetStates
    \/ HassGetStatesResult
    \/ ReceiverStateChanged
    \/ ReceiverGetStatesResult
    \/ SetupResume

\* the cache and the fan-out of state_changed, with frames that are out of order
FanoutNext ==
    \/ \E e \in EntityIds : HassStateChanged(e)
    \/ \E e \in EntityIds : HassStaleStateChanged(e)
    \/ \E e \in EntityIds : HassEntityRemoved(e)
    \/ ReceiverStateChanged


\* ------------------------------------------------------------------------
\* AppEngine (core/engine/engine.py) and AppWrapper (core/app_infra.py)
\* ------------------------------------------------------------------------

\* AppStatus
CREATED == "created"
INITIALIZING == "initializing"
RUNNING == "running"
FAILED == "failed"
FINALIZING == "finalizing"
TERMINATED == "terminated"

AppStatus == {CREATED, INITIALIZING, RUNNING, FAILED, FINALIZING, TERMINATED}

\* ------------------------------------------------------------------------
\* CallbackRegister (core/services/callback_register.py) and EventListener
\* (core/services/event_listener.py)
\* ------------------------------------------------------------------------

CallbackIds == 1..Len(callbacks)

\* the tables as one value; raised is set when an operation raised
CallbackState ==
    [event_callbacks |-> event_callbacks, scheduler_callbacks |-> scheduler_callbacks,
     is_registered |-> is_registered, mappings |-> callback_to_wrapper_mappings,
     by_id |-> registered_callbacks_by_id, by_event |-> registered_callbacks_by_event,
     jobs |-> jobs, register_calls |-> register_calls, raised |-> FALSE]

SetCallbackState(c) ==
    /\ event_callbacks' = c.event_callbacks
    /\ scheduler_callbacks' = c.scheduler_callbacks
    /\ is_registered' = c.is_registered
    /\ callback_to_wrapper_mappings' = c.mappings
    /\ registered_callbacks_by_id' = c.by_id
    /\ registered_callbacks_by_event' = c.by_event
    /\ jobs' = c.jobs
    /\ register_calls' = c.register_calls

\* the ids in wrapper w's event_callbacks / scheduler_callbacks, cbs being the
\* registrations made so far
wrapper_event_callbacks(c, cbs, w) == {id \in c.event_callbacks : cbs[id].wrapper = w}
wrapper_scheduler_callbacks(c, cbs, w) == {id \in c.scheduler_callbacks : cbs[id].wrapper = w}

\* EventListener.add_listener
add_listener(c, events, id) ==
    [c EXCEPT !.by_id = @ \cup {id},
              !.by_event = [e \in EventNames |->
                               IF \E k \in 1..Len(events) : events[k] = e
                               THEN @[e] \cup {id} ELSE @[e]]]

\* the loop of remove_listener over registration.events: dict.pop of an id that
\* is no longer in the index of the event raises KeyError and ends the loop
RECURSIVE remove_listener_events(_, _, _)
remove_listener_events(c, events, id) ==
    IF events = <<>> THEN c
    ELSE IF id \notin c.by_event[Head(events)]
         THEN [c EXCEPT !.raised = TRUE]
         ELSE remove_listener_events(
                  [c EXCEPT !.by_event[Head(events)] = @ \ {id}], Tail(events), id)

\* EventListener.remove_listener
remove_listener(c, cbs, id) ==
    IF id \notin c.by_id THEN c
    ELSE remove_listener_events([c EXCEPT !.by_id = @ \ {id}], cbs[id].events, id)

\* how often callback id was handed to the scheduler or to the event bus
register_count(calls, id) == IF id \in DOMAIN calls THEN calls[id] ELSE 0

\* __register_single_scheduler_callback without registration.is_registered = True
register_single_scheduler_callback_unmarked(c, id) ==
    IF id \in c.is_registered THEN c
    ELSE [c EXCEPT !.jobs = @ \cup {id},
                   !.register_calls = map_set(@, id, register_count(@, id) + 1)]

\* __register_single_scheduler_callback
register_single_scheduler_callback(c, id) ==
    IF id \in c.is_registered THEN c
    ELSE [c EXCEPT !.jobs = @ \cup {id}, !.is_registered = @ \cup {id},
                   !.register_calls = map_set(@, id, register_count(@, id) + 1)]

\* __register_single_event_callback
register_single_event_callback(c, cbs, id) ==
    IF id \in c.is_registered THEN c
    ELSE [add_listener(c, cbs[id].events, id)
             EXCEPT !.is_registered = @ \cup {id},
                    !.register_calls = map_set(@, id, register_count(@, id) + 1)]

\* the ids from i on, in the order of the dict (the order they were added in)
RECURSIVE register_from(_, _, _, _)
register_from(c, cbs, w, i) ==
    IF i > Len(cbs) THEN c
    ELSE register_from(
             IF cbs[i].wrapper # w THEN c
             ELSE IF i \in c.scheduler_callbacks THEN register_single_scheduler_callback(c, i)
             ELSE IF i \in c.event_callbacks THEN register_single_event_callback(c, cbs, i)
             ELSE c,
             cbs, w, i + 1)

\* register_all_callbacks
register_all_callbacks(c, cbs, w) == register_from(c, cbs, w, 1)

\* __cancel_single_scheduler_callback
cancel_single_scheduler_callback(c, cbs, w, status, id) ==
    IF id \notin wrapper_scheduler_callbacks(c, cbs, w) THEN c
    ELSE IF id \notin c.is_registered /\ status # FAILED THEN c
    ELSE [c EXCEPT !.jobs = @ \ {id}, !.mappings = @ \ {id}, !.is_registered = @ \ {id}]

\* __cancel_single_event_callback
cancel_single_event_callback(c, cbs, w, status, id) ==
    IF id \notin wrapper_event_callbacks(c, cbs, w) THEN c
    ELSE IF id \notin c.is_registered /\ status # FAILED THEN c
    ELSE IF remove_listener(c, cbs, id).raised THEN remove_listener(c, cbs, id)
    ELSE [remove_listener(c, cbs, id) EXCEPT !.is_registered = @ \ {id}]

\* the loops of cancel_all_callbacks, from id i on; an exception ends them
RECURSIVE cancel_scheduler_from(_, _, _, _, _)
cancel_scheduler_from(c, cbs, w, status, i) ==
    IF i > Len(cbs) THEN c
    ELSE cancel_scheduler_from(cancel_single_scheduler_callback(c, cbs, w, status, i),
                               cbs, w, status, i + 1)

RECURSIVE cancel_event_from(_, _, _, _, _)
cancel_event_from(c, cbs, w, status, i) ==
    IF i > Len(cbs) \/ c.raised THEN c
    ELSE cancel_event_from(cancel_single_event_callback(c, cbs, w, status, i),
                           cbs, w, status, i + 1)

clear_scheduler_callbacks(c, cbs, w) ==
    [c EXCEPT !.scheduler_callbacks = @ \ wrapper_scheduler_callbacks(c, cbs, w)]

clear_event_callbacks(c, cbs, w) ==
    IF c.raised THEN c
    ELSE [c EXCEPT !.event_callbacks = @ \ wrapper_event_callbacks(c, cbs, w)]

\* cancel_all_callbacks
cancel_all_callbacks(c, cbs, w, status) ==
    clear_event_callbacks(
        cancel_event_from(
            clear_scheduler_callbacks(cancel_scheduler_from(c, cbs, w, status, 1), cbs, w),
            cbs, w, status, 1),
        cbs, w)

\* cancel_callback
cancel_callback(c, cbs, w, status, id) ==
    IF id \in wrapper_scheduler_callbacks(c, cbs, w)
    THEN [cancel_single_scheduler_callback(c, cbs, w, status, id)
             EXCEPT !.scheduler_callbacks = @ \ {id}]
    ELSE IF id \in wrapper_event_callbacks(c, cbs, w)
    THEN IF cancel_single_event_callback(c, cbs, w, status, id).raised
         THEN cancel_single_event_callback(c, cbs, w, status, id)
         ELSE [cancel_single_event_callback(c, cbs, w, status, id)
                  EXCEPT !.event_callbacks = @ \ {id}]
    ELSE c

WrapperIds == 1..Len(wrappers)

set_status(ws, w, status) == [ws EXCEPT ![w].status = status]

\* a coroutine that continues in the same step of the event loop
Continuation(op, app_name, wrapper) ==
    [op |-> op, app_name |-> app_name, wrapper |-> wrapper]

\* a __terminate_app call: the app, the wrapper it finalizes (0 before it has looked),
\* where it is, who awaits it, the wrapper whose failed start made it, and whether
\* __start_app follows (__reload_app)
Termination(app_name, wrapper, pc, origin, by, then_start) ==
    [app_name |-> app_name, wrapper |-> wrapper, pc |-> pc, origin |-> origin,
     by |-> by, then_start |-> then_start]

ActiveApps == {a \in app_registrations : active_instance[a] # 0}

\* __build_app_instance: a new wrapper with status CREATED becomes the active instance;
\* __initialize_app follows without a suspension point
build_app_instance(a, started_by, ws, act) ==
    /\ Len(ws) < MaxInstances
    /\ wrappers' = Append(ws, [app_name |-> a, status |-> CREATED,
                               initialize |-> "not_called", started_by |-> started_by])
    /\ active_instance' = [act EXCEPT ![a] = Len(ws) + 1]
    /\ sync' = <<Continuation("initialize", a, Len(ws) + 1)>>

\* an AppRegistration object; the objects are told apart by the number of the
\* instance that register_app built for them
Registration(a, id) == [app_name |-> a, id |-> id]

\* set.add of a new AppRegistration to the set of its path: the class hashes by
\* app_name and compares by its fields, so an object whose fields equal those of an
\* object of the set is not added
add_registration(registrations, a, id, equal) ==
    IF equal /\ \E r \in registrations : r.app_name = a
    THEN registrations
    ELSE registrations \cup {Registration(a, id)}

\* register_app returns early: the name is registered and has an active instance
register_app_rejects_never(a) == FALSE

register_app_rejects(a) == a \in app_registrations /\ active_instance[a] # 0

\* register_app(app_name, app_path): the registration replaces the one of the name,
\* is added to the set of its path, and __start_app follows
register_app(a, path, equal) ==
    IF register_app_rejects(a)
    THEN UNCHANGED <<app_registrations, apps_by_path, registration_id, active_instance,
                     wrappers, sync>>
    ELSE /\ app_registrations' = app_registrations \cup {a}
         /\ registration_id' = [registration_id EXCEPT ![a] = Len(wrappers) + 1]
         /\ apps_by_path' = [apps_by_path EXCEPT ![path] =
                                add_registration(@, a, Len(wrappers) + 1, equal)]
         /\ build_app_instance(a, "register", wrappers, [active_instance EXCEPT ![a] = 0])

\* register_app of a name that is not rejected, called by the file that defines the app
RegisterApp(a) ==
    /\ sync = <<>>
    /\ cache_loaded_conn # 0
    /\ a \notin app_registrations \/ active_instance[a] = 0
    /\ register_app(a, AppFile[a], FALSE)
    /\ UNCHANGED <<register_tasks, register_rejected>>
    /\ UNCHANGED <<start_tasks, terminations>>
    /\ UNCHANGED <<hassVars, historyVars, notEngine>>

\* registration.register_app called by the code of an app file: the call of
\* AppEngine.register_app is a task of its own
RegisterAppCalled(a, path, equal) ==
    /\ sync = <<>>
    /\ cache_loaded_conn # 0
    /\ Len(register_tasks) < MaxRegisterTasks
    /\ register_tasks' = Append(register_tasks,
                                [app_name |-> a, app_path |-> path, equal |-> equal])
    /\ UNCHANGED <<apps_by_path, register_rejected, registration_id>>
    /\ UNCHANGED <<app_registrations, active_instance, wrappers, sync, start_tasks,
                   terminations>>
    /\ UNCHANGED <<hassVars, historyVars, notEngine>>

\* the oldest register_app task runs, up to the call of initialize()
RegisterAppTask ==
    /\ sync = <<>>
    /\ register_tasks # <<>>
    /\ register_tasks' = Tail(register_tasks)
    /\ register_app(Head(register_tasks).app_name, Head(register_tasks).app_path,
                    Head(register_tasks).equal)
    /\ register_rejected' = IF register_app_rejects(Head(register_tasks).app_name)
                            THEN register_rejected \cup {Head(register_tasks).app_name}
                            ELSE register_rejected
    /\ UNCHANGED <<start_tasks, terminations>>
    /\ UNCHANGED <<hassVars, historyVars, notEngine>>

\* a __start_app task made by app_start_callback runs
StartTaskRun(t) ==
    /\ sync = <<>>
    /\ t \in start_tasks
    /\ start_tasks' = start_tasks \ {t}
    /\ build_app_instance(t.app_name, t.origin, wrappers, active_instance)
    /\ UNCHANGED <<registryVars, app_registrations, terminations>>
    /\ UNCHANGED <<hassVars, historyVars, notEngine>>

\* __initialize_app up to the call of initialize()
InitializeApp ==
    /\ sync # <<>>
    /\ sync[1].op = "initialize"
    /\ wrappers' = [wrappers EXCEPT ![sync[1].wrapper] =
                       [@ EXCEPT !.status = INITIALIZING, !.initialize = "running"]]
    /\ sync' = <<>>
    /\ UNCHANGED <<registryVars, app_registrations, active_instance, start_tasks, terminations>>
    /\ UNCHANGED <<hassVars, historyVars, notEngine>>

\* initialize() returned
InitializeReturns(w) ==
    /\ sync = <<>>
    /\ w \in WrapperIds
    /\ wrappers[w].initialize = "running"
    /\ wrappers' = [wrappers EXCEPT ![w] =
                       [@ EXCEPT !.status = RUNNING, !.initialize = "returned"]]
    /\ SetCallbackState(register_all_callbacks(CallbackState, callbacks, w))
    /\ UNCHANGED <<registryVars, app_registrations, active_instance, sync, start_tasks, terminations>>
    /\ UNCHANGED <<callbacks, invocations, callbackHistoryVars>>
    /\ UNCHANGED <<hassVars, historyVars, notCallbacks>>

\* initialize() raised: status FAILED, and __start_app calls __terminate_app
InitializeRaises(w) ==
    /\ sync = <<>>
    /\ w \in WrapperIds
    /\ wrappers[w].initialize = "running"
    /\ wrappers' = [wrappers EXCEPT ![w] =
                       [@ EXCEPT !.status = FAILED, !.initialize = "raised"]]
    /\ sync' = <<Continuation("terminate", wrappers[w].app_name, w)>>
    /\ UNCHANGED <<registryVars, app_registrations, active_instance, start_tasks, terminations>>
    /\ UNCHANGED <<hassVars, historyVars, notEngine>>

\* cancel_all_callbacks as __terminate_app of app a calls it
terminate_cancel_all(a) ==
    cancel_all_callbacks(CallbackState, callbacks, active_instance[a],
                         wrappers[active_instance[a]].status)

\* __terminate_app of app a finds an active instance and cancel_all_callbacks raises
terminate_raises(a) ==
    active_instance[a] # 0 /\ terminate_cancel_all(a).raised

\* __terminate_app up to the call of finalize(): nothing to do without an active
\* instance; otherwise the callbacks of the active instance are cancelled and its
\* status becomes FINALIZING; an exception of cancel_all_callbacks ends the call
terminate_app(a, origin, by, then_start, ts) ==
    IF active_instance[a] = 0
    THEN /\ wrappers' = wrappers
         /\ terminations' = ts
         /\ SetCallbackState(CallbackState)
    ELSE /\ SetCallbackState(terminate_cancel_all(a))
         /\ IF terminate_cancel_all(a).raised
            THEN /\ wrappers' = wrappers
                 /\ terminations' = ts
            ELSE /\ wrappers' = set_status(wrappers, active_instance[a], FINALIZING)
                 /\ terminations' = ts \cup {Termination(a, active_instance[a], "finalize",
                                                         origin, by, then_start)}

\* a __terminate_app task made by app_termination_callback runs; its exception ends
\* the gather that awaits it: in the reader the connection is torn down, and the
\* DISCONNECTED handler ends before __connect_to_hass
TerminateBegin(t) ==
    /\ sync = <<>>
    /\ t \in terminations
    /\ t.pc = "created"
    /\ terminate_app(t.app_name, t.origin, t.by, t.then_start, terminations \ {t})
    /\ receiver_pc' = IF terminate_raises(t.app_name) /\ t.origin = "hass_stop"
                      THEN "raised" ELSE receiver_pc
    /\ handlers' = IF terminate_raises(t.app_name) /\ t.origin = "disconnected"
                   THEN {h \in handlers : h.kind # "disconnected"} ELSE handlers
    /\ UNCHANGED <<registryVars, app_registrations, active_instance, sync, start_tasks>>
    /\ UNCHANGED <<reload_reason, hass_api_pc, conn_id, cache_loaded_conn>>
    /\ UNCHANGED <<callbacks, invocations, callbackHistoryVars>>
    /\ UNCHANGED <<historyVars, notCallbacks>>

\* __start_app's except branch: __terminate_app of the registration; its exception
\* leaves __start_app and ends the gather of the start callback
TerminateAfterFailedStart ==
    /\ sync # <<>>
    /\ sync[1].op = "terminate"
    /\ terminate_app(sync[1].app_name, "init_failed", sync[1].wrapper, FALSE, terminations)
    /\ sync' = <<>>
    /\ handlers' = IF terminate_raises(sync[1].app_name)
                   THEN {h \in handlers : ~(h.pc = "starting_apps"
                                            /\ h.kind = wrappers[sync[1].wrapper].started_by)}
                   ELSE handlers
    /\ UNCHANGED <<registryVars, app_registrations, active_instance, start_tasks>>
    /\ UNCHANGED <<reload_reason, hass_api_pc, conn_id, receiver_pc, cache_loaded_conn>>
    /\ UNCHANGED <<callbacks, invocations, callbackHistoryVars>>
    /\ UNCHANGED <<historyVars, notCallbacks>>

\* finalize() returned (or raised an Exception, which is logged): status TERMINATED,
\* __clear_app_instance clears the registration's active instance; __reload_app goes
\* on with __start_app
FinalizeReturns(t) ==
    /\ sync = <<>>
    /\ t \in terminations
    /\ t.pc = "finalize"
    /\ terminations' = terminations \ {t}
    /\ IF t.then_start
       THEN build_app_instance(t.app_name, "reload",
                               set_status(wrappers, t.wrapper, TERMINATED),
                               [active_instance EXCEPT ![t.app_name] = 0])
       ELSE /\ wrappers' = set_status(wrappers, t.wrapper, TERMINATED)
            /\ active_instance' = [active_instance EXCEPT ![t.app_name] = 0]
            /\ sync' = <<>>
    /\ UNCHANGED <<registryVars, app_registrations, start_tasks>>
    /\ active_at_loss' = active_at_loss \ {t.wrapper}
    /\ UNCHANGED <<running_before_stop, hass_started_handled>>
    /\ UNCHANGED <<hassVars, notEngine>>

\* finalize() awaits a command (call_service has no timeout) while the connection
\* is not listening: the future of that command is never completed
FinalizeAwaitsCommand(t) ==
    /\ sync = <<>>
    /\ t \in terminations
    /\ t.pc = "finalize"
    /\ hass_api_pc # "listening"
    /\ terminations' = (terminations \ {t}) \cup {[t EXCEPT !.pc = "finalize_blocked"]}
    /\ UNCHANGED <<registryVars, app_registrations, active_instance, wrappers, sync, start_tasks>>
    /\ UNCHANGED <<hassVars, historyVars, notEngine>>

\* MetaPlugin.restart_app called by a callback of a running app: __reload_app awaits
\* __terminate_app and then __start_app
ReloadApp(a) ==
    /\ sync = <<>>
    /\ a \in ActiveApps
    /\ wrappers[active_instance[a]].status = RUNNING
    /\ Len(wrappers) < MaxInstances
    /\ terminate_app(a, "reload", 0, TRUE, terminations)
    /\ UNCHANGED <<registryVars, app_registrations, active_instance, sync, start_tasks>>
    /\ UNCHANGED <<callbacks, invocations, callbackHistoryVars>>
    /\ UNCHANGED <<hassVars, historyVars, notCallbacks>>

\* ------------------------------------------------------------------------
\* DependencyTracker (core/dependency_tracking/dependency_tracker.py) and
\* AppEngine.terminate_app_from_files
\* ------------------------------------------------------------------------

\* the files whose name ends in the app suffix
AppFiles == {AppFile[a] : a \in AppNames}

\* the imports of the files are acyclic: a file imports files of a lower rank only
FileRank == [f \in Files |-> IF f = "lib.py" THEN 1 ELSE IF f = "one_apps.py" THEN 2 ELSE 3]

seq_range(s) == {s[i] : i \in 1..Len(s)}

\* list.remove(x): the first x of the list is taken out
seq_remove(s, x) ==
    LET first == CHOOSE i \in 1..Len(s) : s[i] = x /\ \A j \in 1..(i - 1) : s[j] # x
    IN  SubSeq(s, 1, first - 1) \o SubSeq(s, first + 1, Len(s))

\* the elements of a set of files or of registrations as a list, in a fixed order
RECURSIVE ranked(_, _)
ranked(S, rank) ==
    IF S = {} THEN <<>>
    ELSE LET x == CHOOSE y \in S : \A z \in S : rank[y] <= rank[z]
         IN  <<x>> \o ranked(S \ {x}, rank)

\* the files that ImportGraph.create([path]) finds from path: path and what it
\* imports, directly or not, in the sources as they are on disk
RECURSIVE import_graph(_, _, _)
import_graph(fs, S, n) ==
    IF n = 0 THEN S ELSE import_graph(fs, S \cup UNION {fs[f] : f \in S}, n - 1)

\* load_or_reload_filepath, lines 156-177: the record of node forgets its imports
\* and gets those of the import graph
set_imports(tr, node, deps) ==
    LET forgotten == [f \in Files |-> IF f \in seq_range(tr.imports[node])
                                      THEN seq_remove(tr.imported_by[f], node)
                                      ELSE tr.imported_by[f]]
    IN  [imports |-> [tr.imports EXCEPT ![node] = ranked(deps, FileRank)],
         imported_by |-> [f \in Files |-> IF f \in deps THEN Append(forgotten[f], node)
                                          ELSE forgotten[f]]]

\* load_or_reload_filepath, lines 142-177, for the first k nodes of the import graph
RECURSIVE track_imports(_, _, _, _)
track_imports(tr, fs, nodes, k) ==
    IF k = 0 THEN tr
    ELSE set_imports(track_imports(tr, fs, nodes, k - 1), nodes[k], fs[nodes[k]])

\* __build_recursive_list_of_imports_from_node: the value of nodes after the first
\* k imports of node
RECURSIVE build_recursive_list_of_imports_from_node(_, _, _, _)
build_recursive_list_of_imports_from_node(imps, node, depth, k) ==
    IF k = 0 THEN << <<node, depth>> >>
    ELSE build_recursive_list_of_imports_from_node(imps, imps[node][k], depth + 1,
                                                   Len(imps[imps[node][k]]))
         \o build_recursive_list_of_imports_from_node(imps, node, depth, k - 1)

\* __build_recursive_list_of_importers_of_node: the value of nodes after the first
\* k importers of node
RECURSIVE build_recursive_list_of_importers_of_node(_, _, _, _)
build_recursive_list_of_importers_of_node(impby, node, depth, k) ==
    IF k = 0 THEN << <<node, depth>> >>
    ELSE build_recursive_list_of_importers_of_node(impby, node, depth, k - 1)
         \o build_recursive_list_of_importers_of_node(impby, impby[node][k], depth + 1,
                                                      Len(impby[impby[node][k]]))

\* sorted(nodes, key=depth, reverse=True): stable, the deepest first
RECURSIVE sorted_nodes(_, _)
sorted_nodes(nodes, depth) ==
    IF depth < 0 THEN <<>>
    ELSE SelectSeq(nodes, LAMBDA n : n[2] = depth) \o sorted_nodes(nodes, depth - 1)

\* __clean_and_rank, lines 221-226: every node that is not in s yet is inserted at
\* the front of s
RECURSIVE insert_nodes(_, _)
insert_nodes(nodes, k) ==
    IF k = 0 THEN <<>>
    ELSE LET s == insert_nodes(nodes, k - 1)
         IN  IF nodes[k][1] \in seq_range(s) THEN s ELSE <<nodes[k][1]>> \o s

\* __clean_and_rank
clean_and_rank(nodes) ==
    insert_nodes(sorted_nodes(nodes, Cardinality(Files)), Len(nodes))

\* an unload that takes the apps of every file
get_files_to_unload_every_file(impby, path) == ranked(Files, FileRank)

\* __get_files_to_unload: path and its importers, direct or not; a file is in the
\* list once for every chain of imports that leads to it
get_files_to_unload(impby, path) ==
    LET nodes == build_recursive_list_of_importers_of_node(impby, path, 0, Len(impby[path]))
    IN  [i \in 1..Len(nodes) |-> nodes[i][1]]

\* terminate_app_from_files, lines 372-377: the registrations of the paths, in the
\* order of the paths
RECURSIVE app_names_to_terminate(_, _)
app_names_to_terminate(paths, k) ==
    IF k = 0 THEN <<>>
    ELSE app_names_to_terminate(paths, k - 1)
         \o LET regs == apps_by_path[paths[k]]
            IN  [i \in 1..Cardinality(regs) |->
                    [app_name |-> ranked(regs, [r \in regs |-> r.id])[i].app_name,
                     id |-> ranked(regs, [r \in regs |-> r.id])[i].id,
                     app_path |-> paths[k]]]

\* __terminate_multiple_apps up to its next suspension point: for a registration
\* without an active instance __terminate_app returns at once, the name is popped
\* from __app_registrations and the registration is removed from the set of its
\* path, which raises KeyError when the set does not hold it; for a registration
\* with an active instance __terminate_app awaits finalize()
RECURSIVE terminate_multiple_apps(_, _, _, _)
terminate_multiple_apps(queue, regs, by_path, act) ==
    IF queue = <<>>
    THEN [outcome |-> "done", queue |-> <<>>, app_registrations |-> regs,
          apps_by_path |-> by_path]
    ELSE LET r == Head(queue)
         IN  IF registration_id[r.app_name] = r.id /\ act[r.app_name] # 0
             THEN [outcome |-> "terminate", queue |-> queue, app_registrations |-> regs,
                   apps_by_path |-> by_path]
             ELSE IF Registration(r.app_name, r.id) \notin by_path[r.app_path]
             THEN [outcome |-> "raised", queue |-> <<>>,
                   app_registrations |-> regs \ {r.app_name}, apps_by_path |-> by_path]
             ELSE terminate_multiple_apps(
                      Tail(queue), regs \ {r.app_name},
                      [by_path EXCEPT ![r.app_path] = @ \ {Registration(r.app_name, r.id)}],
                      act)

\* the register_app tasks that the code of the files makes when it is executed
RECURSIVE registration_tasks(_, _)
registration_tasks(files, k) ==
    IF k = 0 THEN <<>>
    ELSE registration_tasks(files, k - 1)
         \o LET apps == ranked({a \in AppNames : AppFile[a] = files[k]},
                               [a \in AppNames |-> IF a = "app1" THEN 1 ELSE 2])
            IN  [i \in 1..Len(apps) |->
                    [app_name |-> apps[i], app_path |-> files[k], equal |-> FALSE]]

\* load_or_reload_filepath(path): the records of the import graph of path are
\* brought up to date; without an app file among the imports and the importers of
\* path nothing is loaded; otherwise the modules of the load list that have no
\* module are imported and those of the reload list that have one are reloaded
load_or_reload_filepath(path, fs) ==
    LET tr == track_imports([imports |-> imports, imported_by |-> imported_by], fs,
                            ranked(import_graph(fs, {path}, Cardinality(Files)), FileRank),
                            Cardinality(import_graph(fs, {path}, Cardinality(Files))))
        nodes_to_load == build_recursive_list_of_imports_from_node(
                             tr.imports, path, 0, Len(tr.imports[path]))
        nodes_to_reload == build_recursive_list_of_importers_of_node(
                               tr.imported_by, path, 0, Len(tr.imported_by[path]))
        both == nodes_to_load \o nodes_to_reload
        ranked_load == clean_and_rank(nodes_to_load)
        ranked_reload == clean_and_rank(nodes_to_reload)
        load == IF module[path] THEN seq_remove(ranked_load, path) ELSE ranked_load
        reload == IF module[path] THEN ranked_reload ELSE seq_remove(ranked_reload, path)
        loaded == SelectSeq(load, LAMBDA f : ~module[f])
        reloaded == SelectSeq(reload, LAMBDA f : module[f] \/ f \in seq_range(load))
    IN  IF \A i \in 1..Len(both) : both[i][1] \notin AppFiles
        THEN [imports |-> tr.imports, imported_by |-> tr.imported_by, module |-> module,
              returned_early |-> TRUE, load |-> <<>>, reload |-> <<>>, tasks |-> <<>>]
        ELSE [imports |-> tr.imports, imported_by |-> tr.imported_by,
              module |-> [f \in Files |-> module[f] \/ f \in seq_range(load)],
              returned_early |-> FALSE, load |-> load, reload |-> reload,
              tasks |-> registration_tasks(loaded \o reloaded, Len(loaded) + Len(reloaded))]

\* process_file_changed after a suspension point or at its start: the rest of
\* __terminate_multiple_apps up to the next __terminate_app that awaits, and after
\* the last one load_or_reload_filepath; a KeyError ends the task
file_task_goes_on(path, fs, act) ==
    LET queue == IF file_task = <<>>
                 THEN app_names_to_terminate(get_files_to_unload(imported_by, path),
                                             Len(get_files_to_unload(imported_by, path)))
                 ELSE file_task[1].queue
        t == terminate_multiple_apps(queue, app_registrations, apps_by_path, act)
        l == load_or_reload_filepath(path, fs)
    IN  /\ app_registrations' = t.app_registrations
        /\ apps_by_path' = t.apps_by_path
        /\ IF t.outcome = "terminate"
           THEN /\ sync' = <<Continuation("file_terminate", Head(t.queue).app_name,
                                          act[Head(t.queue).app_name])>>
                /\ file_task' = <<[path |-> path, queue |-> t.queue]>>
                /\ UNCHANGED <<imports, imported_by, module, last_change, register_tasks>>
           ELSE IF t.outcome = "raised"
           THEN /\ sync' = <<>>
                /\ file_task' = <<>>
                /\ UNCHANGED <<imports, imported_by, module, last_change, register_tasks>>
           ELSE /\ sync' = <<>>
                /\ file_task' = <<>>
                /\ imports' = l.imports
                /\ imported_by' = l.imported_by
                /\ module' = l.module
                /\ last_change' = <<[path |-> path, returned_early |-> l.returned_early,
                                     load |-> l.load, reload |-> l.reload]>>
                /\ register_tasks' = register_tasks \o l.tasks

\* the file watcher reports that the source of path changed, its imports now being
\* new_imports: process_file_changed(path, is_deletion=False) up to its first
\* suspension point
ProcessFileChanged(path, new_imports) ==
    /\ sync = <<>>
    /\ file_task = <<>>
    /\ Len(file_changes) < MaxFileChanges
    /\ \A f \in new_imports : FileRank[f] < FileRank[path]
    /\ file_changes' = Append(file_changes, path)
    /\ fs_imports' = [fs_imports EXCEPT ![path] = new_imports]
    /\ file_task_goes_on(path, fs_imports', active_instance)
    /\ UNCHANGED <<active_instance, wrappers, start_tasks, terminations, register_rejected,
                   registration_id>>
    /\ UNCHANGED <<hassVars, historyVars, callbackVars, callbackHistoryVars, notHassTracker>>

\* __terminate_app of the next registration with an active instance, up to the call
\* of finalize(); an exception of cancel_all_callbacks ends process_file_changed
FileTerminateApp ==
    /\ sync # <<>>
    /\ sync[1].op = "file_terminate"
    /\ terminate_app(sync[1].app_name, "file_changed", 0, FALSE, terminations)
    /\ sync' = <<>>
    /\ file_task' = IF terminate_raises(sync[1].app_name) THEN <<>> ELSE file_task
    /\ UNCHANGED <<fs_imports, imports, imported_by, module, file_changes, last_change>>
    /\ UNCHANGED <<registryVars, app_registrations, active_instance, start_tasks>>
    /\ UNCHANGED <<callbacks, invocations, callbackHistoryVars>>
    /\ UNCHANGED <<hassVars, historyVars, notHassTracker>>

\* finalize() of an app that a file change terminates returned: status TERMINATED,
\* the active instance is cleared, and process_file_changed goes on
FileFinalizeReturns(t) ==
    /\ sync = <<>>
    /\ t \in terminations
    /\ t.pc = "finalize"
    /\ t.origin = "file_changed"
    /\ file_task # <<>>
    /\ terminations' = terminations \ {t}
    /\ wrappers' = set_status(wrappers, t.wrapper, TERMINATED)
    /\ active_instance' = [active_instance EXCEPT ![t.app_name] = 0]
    /\ file_task_goes_on(file_task[1].path, fs_imports, active_instance')
    /\ UNCHANGED <<fs_imports, file_changes, start_tasks, register_rejected, registration_id>>
    /\ UNCHANGED <<hassVars, historyVars, callbackVars, callbackHistoryVars, notHassTracker>>

\* ------------------------------------------------------------------------
\* HassCore connection handling (services/hass/core.py) as AppEngine drives it
\* ------------------------------------------------------------------------

\* a task of HassCore that awaits commands of connection conn
Handler(kind, conn, pc) == [kind |-> kind, conn |-> conn, pc |-> pc]

\* app_termination_callback: one __terminate_app task per registration with an
\* active instance
termination_tasks(origin) ==
    {Termination(a, 0, "created", origin, 0, FALSE) : a \in ActiveApps}

\* app_start_callback: one __start_app task per registration without an active instance
start_app_tasks(origin) ==
    {[app_name |-> a, origin |-> origin] : a \in app_registrations \ ActiveApps}

RunningApps == {a \in ActiveApps : wrappers[active_instance[a]].status = RUNNING}

\* __connect_and_listen: the socket is open and authenticated, the CONNECTED handler
\* is started
Reconnected ==
    /\ sync = <<>>
    /\ hass_api_pc = "dialing"
    /\ hass_api_pc' = "listening"
    /\ receiver_pc' = "idle"
    /\ handlers' = handlers \cup {Handler("connected", conn_id, "subscribe_events")}
    /\ UNCHANGED <<reload_reason, conn_id, cache_loaded_conn>>
    /\ UNCHANGED <<engineVars, historyVars, notEngine>>

\* __connection_state_updated(CONNECTED) after subscribe_events answered
SubscribeEventsResult(h) ==
    /\ sync = <<>>
    /\ h \in handlers
    /\ h.pc = "subscribe_events"
    /\ hass_api_pc = "listening"
    /\ h.conn = conn_id
    /\ handlers' = (handlers \ {h}) \cup
                      (CASE reload_reason = "init" -> {[h EXCEPT !.pc = "get_states"]}
                         [] reload_reason = "disconnected" -> {[h EXCEPT !.pc = "is_hass_up"]}
                         [] OTHER -> {})
    /\ UNCHANGED <<reload_reason, hass_api_pc, conn_id, receiver_pc, cache_loaded_conn>>
    /\ UNCHANGED <<engineVars, historyVars, notEngine>>

\* the is_hass_up poll ended (Home Assistant up, or the wait limit reached)
IsHassUpResult(h) ==
    /\ sync = <<>>
    /\ h \in handlers
    /\ h.pc = "is_hass_up"
    /\ hass_api_pc = "listening"
    /\ h.conn = conn_id
    /\ handlers' = (handlers \ {h}) \cup {[h EXCEPT !.pc = "get_states"]}
    /\ UNCHANGED <<reload_reason, hass_api_pc, conn_id, receiver_pc, cache_loaded_conn>>
    /\ UNCHANGED <<engineVars, historyVars, notEngine>>

\* setup() got the answer of get_states: the cache is loaded; in start_apps the start
\* callback follows; after the first connection the reload reason is reset
GetStatesResult(h) ==
    /\ sync = <<>>
    /\ h \in handlers
    /\ h.pc = "get_states"
    /\ hass_api_pc = "listening"
    /\ h.conn = conn_id
    /\ cache_loaded_conn' = conn_id
    /\ IF h.kind = "connected" /\ reload_reason = "init"
       THEN /\ reload_reason' = None
            /\ handlers' = handlers \ {h}
            /\ UNCHANGED start_tasks
       ELSE /\ start_tasks' = start_tasks \cup start_app_tasks(h.kind)
            /\ handlers' = (handlers \ {h}) \cup
                              (IF h.kind = "connected"
                               THEN {[h EXCEPT !.pc = "starting_apps"]} ELSE {})
            /\ UNCHANGED reload_reason
    /\ UNCHANGED <<hass_api_pc, conn_id, receiver_pc>>
    /\ UNCHANGED <<registryVars, app_registrations, active_instance, wrappers, sync, terminations>>
    /\ UNCHANGED <<historyVars, notEngine>>

\* a __start_app call of origin o has not returned yet
start_in_progress(o) ==
    \/ \E t \in start_tasks : t.origin = o
    \/ \E w \in WrapperIds :
          /\ wrappers[w].started_by = o
          /\ \/ wrappers[w].initialize \in {"not_called", "running"}
             \/ \E t \in terminations : t.origin = "init_failed" /\ t.by = w

\* __connection_state_updated(CONNECTED): start_apps returned, the reload reason is reset
StartAppsDone(h) ==
    /\ sync = <<>>
    /\ h \in handlers
    /\ h.pc = "starting_apps"
    /\ ~start_in_progress(h.kind)
    /\ reload_reason' = None
    /\ handlers' = handlers \ {h}
    /\ UNCHANGED <<hass_api_pc, conn_id, receiver_pc, cache_loaded_conn>>
    /\ UNCHANGED <<engineVars, historyVars, notEngine>>

\* __all_events_callback(homeassistant_stop): the receiver awaits the termination of
\* every app inside wait_for(timeout=5)
all_events_callback_stop ==
    /\ sync = <<>>
    /\ hass_api_pc = "listening"
    /\ receiver_pc = "idle"
    /\ reload_reason = None
    /\ reload_reason' = "hass_restart"
    /\ terminations' = terminations \cup termination_tasks("hass_stop")
    /\ receiver_pc' = "stop_dependent_apps"
    /\ running_before_stop' = RunningApps
    /\ hass_started_handled' = FALSE
    /\ UNCHANGED <<hass_api_pc, conn_id, handlers, cache_loaded_conn, active_at_loss>>
    /\ UNCHANGED <<registryVars, app_registrations, active_instance, wrappers, sync, start_tasks>>

\* homeassistant_stop arrives on the connection
HassStopEvent ==
    /\ all_events_callback_stop
    /\ UNCHANGED notEngine

\* every termination the receiver awaits has returned
ReceiverStopAppsDone ==
    /\ sync = <<>>
    /\ receiver_pc = "stop_dependent_apps"
    /\ ~\E t \in terminations : t.origin = "hass_stop"
    /\ receiver_pc' = "idle"
    /\ UNCHANGED <<reload_reason, hass_api_pc, conn_id, handlers, cache_loaded_conn>>
    /\ UNCHANGED <<engineVars, historyVars, notEngine>>

\* wait_for's timeout: the callback is cancelled inside finalize(); the CancelledError
\* passes __terminate_app's except Exception, so neither TERMINATED nor
\* __clear_app_instance is reached
ReceiverCallbackTimeout ==
    /\ sync = <<>>
    /\ receiver_pc = "stop_dependent_apps"
    /\ \E t \in terminations : t.origin = "hass_stop"
    /\ \A t \in terminations : t.origin = "hass_stop" => t.pc # "created"
    /\ terminations' = {t \in terminations : t.origin # "hass_stop"}
    /\ receiver_pc' = "idle"
    /\ UNCHANGED <<reload_reason, hass_api_pc, conn_id, handlers, cache_loaded_conn>>
    /\ UNCHANGED <<registryVars, app_registrations, active_instance, wrappers, sync, start_tasks>>
    /\ UNCHANGED <<historyVars, notEngine>>

\* __all_events_callback(homeassistant_started) after a homeassistant_stop:
\* start_apps runs as a task of its own
all_events_callback_started ==
    /\ sync = <<>>
    /\ hass_api_pc = "listening"
    /\ receiver_pc = "idle"
    /\ reload_reason = "hass_restart"
    /\ reload_reason' = None
    /\ handlers' = handlers \cup {Handler("start_apps", conn_id, "get_states")}
    /\ hass_started_handled' = TRUE
    /\ UNCHANGED <<hass_api_pc, conn_id, receiver_pc, cache_loaded_conn>>
    /\ UNCHANGED <<running_before_stop, active_at_loss>>
    /\ UNCHANGED engineVars

\* homeassistant_started arrives on the connection
HassStartedEvent ==
    /\ all_events_callback_started
    /\ UNCHANGED notEngine

\* the socket is lost: the reader and the writer end, the tasks that await commands of
\* this connection never continue, and __connection_state_updated(DISCONNECTED)
\* runs up to its first suspension point
SocketDropped ==
    /\ sync = <<>>
    /\ hass_api_pc = "listening"
    /\ conn_id < MaxConnections
    /\ receiver_pc' = "idle"
    /\ active_at_loss' = IF reload_reason = None
                         THEN active_at_loss \cup {active_instance[a] : a \in ActiveApps}
                         ELSE active_at_loss
    /\ IF reload_reason = None
       THEN /\ reload_reason' = "disconnected"
            /\ hass_api_pc' = "exited"
            /\ terminations' = {t \in terminations :
                                   receiver_pc = "stop_dependent_apps" => t.origin # "hass_stop"}
                                  \cup termination_tasks("disconnected")
            /\ handlers' = {h \in handlers : h.pc = "starting_apps"}
                              \cup {Handler("disconnected", conn_id, "stop_dependent_apps")}
            /\ UNCHANGED conn_id
       ELSE /\ hass_api_pc' = "dialing"
            /\ conn_id' = conn_id + 1
            /\ terminations' = {t \in terminations :
                                   receiver_pc = "stop_dependent_apps" => t.origin # "hass_stop"}
            /\ handlers' = {h \in handlers : h.pc = "starting_apps"}
            /\ UNCHANGED reload_reason
    /\ UNCHANGED <<cache_loaded_conn, running_before_stop, hass_started_handled>>
    /\ UNCHANGED <<registryVars, app_registrations, active_instance, wrappers, sync, start_tasks>>
    /\ UNCHANGED notEngine

\* __connect_and_listen: Home Assistant answers the auth frame with something else
\* than auth_ok; HassApiAuthenticationError ends the connection task, and its
\* finally clause notifies DISCONNECTED. reload_reason is not None while a
\* connection is being made, so the handler has no apps to stop
AuthenticationRejected ==
    /\ sync = <<>>
    /\ hass_api_pc = "dialing"
    /\ conn_id < MaxConnections
    /\ hass_api_pc' = "exited"
    /\ handlers' = handlers \cup {Handler("disconnected", conn_id, "stop_hass_api")}
    /\ auth_rejected' = auth_rejected \cup {conn_id}
    /\ UNCHANGED <<reload_reason, conn_id, receiver_pc, cache_loaded_conn>>
    /\ UNCHANGED <<engineVars, historyVars, callbackVars, callbackHistoryVars, notHass>>

\* __connection_state_updated(DISCONNECTED): stop_dependent_apps_callback returned,
\* __connect_to_hass makes a new HassWebsocketApi
DisconnectedHandlerResume(h) ==
    /\ sync = <<>>
    /\ h \in handlers
    /\ h.kind = "disconnected"
    /\ ~\E t \in terminations : t.origin = "disconnected"
    /\ hass_api_pc' = "dialing"
    /\ conn_id' = conn_id + 1
    /\ handlers' = handlers \ {h}
    /\ UNCHANGED <<reload_reason, receiver_pc, cache_loaded_conn>>
    /\ UNCHANGED <<engineVars, historyVars, notEngine>>

\* ------------------------------------------------------------------------
\* what the code of an app does with its callbacks (plugins/callbacks), and the
\* dispatch of events and jobs to the instrumentation of AppWrapper
\* ------------------------------------------------------------------------

\* code of wrapper w may be running: initialize(), finalize(), or a callback of a
\* running app
UserCodeRuns(w) ==
    \/ wrappers[w].initialize = "running"
    \/ wrappers[w].status = RUNNING
    \/ \E t \in terminations : t.wrapper = w /\ t.pc = "finalize"

\* add_event_callback (listen_event): the registration is stored deferred, and
\* register_all_callbacks runs when the app is RUNNING
AddEventCallback(w, events) ==
    /\ sync = <<>>
    /\ w \in WrapperIds
    /\ UserCodeRuns(w)
    /\ Len(callbacks) < MaxCallbacks
    /\ callbacks' = Append(callbacks, [wrapper |-> w, kind |-> "event", events |-> events])
    /\ SetCallbackState(
          IF wrappers[w].status = RUNNING
          THEN register_all_callbacks(
                   [CallbackState EXCEPT !.event_callbacks = @ \cup {Len(callbacks) + 1}],
                   callbacks', w)
          ELSE [CallbackState EXCEPT !.event_callbacks = @ \cup {Len(callbacks) + 1}])
    /\ UNCHANGED <<invocations, callbackHistoryVars>>
    /\ UNCHANGED <<engineVars, hassVars, historyVars, notCallbacks>>

\* add_scheduler_callback: the registration is stored deferred, and
\* register_all_callbacks runs when the app is RUNNING
SchedulerCallbackAdded(w) ==
    /\ sync = <<>>
    /\ w \in WrapperIds
    /\ UserCodeRuns(w)
    /\ Len(callbacks) < MaxCallbacks
    /\ callbacks' = Append(callbacks, [wrapper |-> w, kind |-> "scheduler", events |-> <<>>])
    /\ SetCallbackState(
          IF wrappers[w].status = RUNNING
          THEN register_all_callbacks(
                   [CallbackState EXCEPT !.scheduler_callbacks = @ \cup {Len(callbacks) + 1},
                                         !.mappings = @ \cup {Len(callbacks) + 1}],
                   callbacks', w)
          ELSE [CallbackState EXCEPT !.scheduler_callbacks = @ \cup {Len(callbacks) + 1},
                                     !.mappings = @ \cup {Len(callbacks) + 1}])
    /\ UNCHANGED <<invocations, callbackHistoryVars>>

\* add_scheduler_callback (run_at, run_every, run_in, ...)
AddSchedulerCallback(w) ==
    /\ SchedulerCallbackAdded(w)
    /\ UNCHANGED <<engineVars, hassVars, historyVars, notCallbacks>>

\* Interval (applications/types.py): the fields that the model tells apart
Interval(days, seconds, milliseconds) ==
    [days |-> days, hours |-> 0, minutes |-> 0, seconds |-> seconds,
     milliseconds |-> milliseconds]
Intervals == {Interval(0, 0, 0), Interval(0, 1, 0), Interval(0, 0, 1), Interval(1, 0, 0)}

\* Interval.is_valid
is_valid(interval) ==
    \/ interval.days # 0
    \/ interval.hours # 0
    \/ interval.minutes # 0
    \/ interval.seconds # 0
    \/ interval.milliseconds # 0

\* a run_at that schedules whatever the datetime is
run_at_in_the_past_unchecked(datetime, current_date) == FALSE

\* run_at, line 492: datetime < current_date
run_at_in_the_past(datetime, current_date) == datetime < current_date

ScheduleCall(op, datetime, interval, raised) ==
    [op |-> op, datetime |-> datetime, interval |-> interval, at |-> now, raised |-> raised]

\* run_at(callback, datetime) called by the code of wrapper w: DomovoySchedulerError
\* for a datetime in the past, add_scheduler_callback otherwise
RunAt(w, datetime) ==
    /\ Len(schedule_calls) < MaxScheduleCalls
    /\ IF run_at_in_the_past(datetime, now)
       THEN /\ sync = <<>>
            /\ w \in WrapperIds
            /\ UserCodeRuns(w)
            /\ schedule_calls' = Append(schedule_calls,
                                        ScheduleCall("run_at", datetime, Interval(0, 0, 0), TRUE))
            /\ UNCHANGED notSchedule
       ELSE /\ SchedulerCallbackAdded(w)
            /\ schedule_calls' = Append(schedule_calls,
                                        ScheduleCall("run_at", datetime, Interval(0, 0, 0), FALSE))
            /\ UNCHANGED notScheduleCallbacks

\* run_every(interval, callback) called by the code of wrapper w, with start "now":
\* DomovoySchedulerError for an interval that is not valid, add_scheduler_callback
\* otherwise
RunEvery(w, interval) ==
    /\ Len(schedule_calls) < MaxScheduleCalls
    /\ IF ~is_valid(interval)
       THEN /\ sync = <<>>
            /\ w \in WrapperIds
            /\ UserCodeRuns(w)
            /\ schedule_calls' = Append(schedule_calls,
                                        ScheduleCall("run_every", now, interval, TRUE))
            /\ UNCHANGED notSchedule
       ELSE /\ SchedulerCallbackAdded(w)
            /\ schedule_calls' = Append(schedule_calls,
                                        ScheduleCall("run_every", now, interval, FALSE))
            /\ UNCHANGED notScheduleCallbacks

\* cancel_callback(id) called by the code of wrapper w
CancelCallback(w, id) ==
    /\ sync = <<>>
    /\ w \in WrapperIds
    /\ UserCodeRuns(w)
    /\ id \in CallbackIds
    /\ SetCallbackState(cancel_callback(CallbackState, callbacks, w, wrappers[w].status, id))
    /\ IF cancel_callback(CallbackState, callbacks, w, wrappers[w].status, id).raised
       THEN /\ cancel_raised' = cancel_raised \cup {id}
            /\ UNCHANGED cancelled
       ELSE /\ cancelled' = IF callbacks[id].wrapper = w
                            THEN cancelled \cup {id} ELSE cancelled
            /\ UNCHANGED cancel_raised
    /\ UNCHANGED <<callbacks, invocations, last_body_run>>
    /\ UNCHANGED <<engineVars, hassVars, historyVars, notCallbacks>>

\* a dispatched invocation: it is first handed to handle_exception_and_logging's wrapper
Invocation(id) ==
    [callback_id |-> id, stage |-> "dispatched", after_cancel |-> id \in cancelled]

\* EventListener.publish_event: one call per subscriber of the event, gathered
PublishEvent(e) ==
    /\ sync = <<>>
    /\ registered_callbacks_by_event[e] # {}
    /\ invocations' = invocations \cup
                         {Invocation(id) : id \in registered_callbacks_by_event[e]}
    /\ UNCHANGED <<callbacks, event_callbacks, scheduler_callbacks, is_registered,
                   callback_to_wrapper_mappings, registered_callbacks_by_id,
                   registered_callbacks_by_event, jobs, register_calls,
                   callbackHistoryVars>>
    /\ UNCHANGED <<engineVars, hassVars, historyVars, notCallbacks>>

\* the scheduler runs a job that is due
JobDue(id) ==
    /\ sync = <<>>
    /\ id \in jobs
    /\ invocations' = invocations \cup {Invocation(id)}
    /\ UNCHANGED <<callbacks, event_callbacks, scheduler_callbacks, is_registered,
                   callback_to_wrapper_mappings, registered_callbacks_by_id,
                   registered_callbacks_by_event, jobs, register_calls,
                   callbackHistoryVars>>
    /\ UNCHANGED <<engineVars, hassVars, historyVars, notCallbacks>>

\* handle_exception_and_logging's wrapper: it returns when the app is not RUNNING,
\* otherwise it creates the task of the callback and awaits it
WrapperRun(v) ==
    /\ sync = <<>>
    /\ v \in invocations
    /\ v.stage = "dispatched"
    /\ invocations' = (invocations \ {v}) \cup
                         (IF wrappers[callbacks[v.callback_id].wrapper].status = RUNNING
                          THEN {[v EXCEPT !.stage = "task_created"]} ELSE {})
    /\ UNCHANGED <<callbacks, event_callbacks, scheduler_callbacks, is_registered,
                   callback_to_wrapper_mappings, registered_callbacks_by_id,
                   registered_callbacks_by_event, jobs, register_calls,
                   callbackHistoryVars>>
    /\ UNCHANGED <<engineVars, hassVars, historyVars, notCallbacks>>

\* the task runs instrumented_call: a status other than RUNNING is logged as
\* critical and the callback is called all the same
TaskRun(v) ==
    /\ sync = <<>>
    /\ v \in invocations
    /\ v.stage = "task_created"
    /\ invocations' = invocations \ {v}
    /\ last_body_run' = <<[callback_id |-> v.callback_id,
                           status |-> wrappers[callbacks[v.callback_id].wrapper].status,
                           after_cancel |-> v.after_cancel]>>
    /\ UNCHANGED <<callbacks, event_callbacks, scheduler_callbacks, is_registered,
                   callback_to_wrapper_mappings, registered_callbacks_by_id,
                   registered_callbacks_by_event, jobs, register_calls,
                   cancelled, cancel_raised>>
    /\ UNCHANGED <<engineVars, hassVars, historyVars, notCallbacks>>

\* ------------------------------------------------------------------------
\* HassPlugin.call_service (plugins/hass/__init__.py)
\* ------------------------------------------------------------------------

\* the keyword arguments of a call: a function from some of the keys to values
KwargKeys == {"entity_id", "domovoy_drop_target", "service_data_entity_id", "brightness"}
KwargValues == [entity_id |-> {"light.k"},
                domovoy_drop_target |-> {"true", "false"},
                service_data_entity_id |-> {"light.s"},
                brightness |-> {"1"}]
Kwargs == UNION {{k \in [keys -> UNION {KwargValues[key] : key \in KwargKeys}] :
                     \A key \in keys : k[key] \in KwargValues[key]}
                 : keys \in SUBSET KwargKeys}

NoCall == [state |-> "none"]
NoTarget == "None"
RequiresResponses == "Service call requires responses but caller did not ask for responses"
OtherError == "Service not found"

kwargs_pop(kwargs, key) == [k \in DOMAIN kwargs \ {key} |-> kwargs[k]]
kwargs_set(kwargs, key, value) ==
    [k \in DOMAIN kwargs \cup {key} |-> IF k = key THEN value ELSE kwargs[k]]

\* the target of the call: kwargs["entity_id"], unless domovoy_drop_target is set
call_service_entity_id(kwargs) ==
    IF /\ "entity_id" \in DOMAIN kwargs
       /\ ("domovoy_drop_target" \notin DOMAIN kwargs \/ kwargs["domovoy_drop_target"] = "false")
    THEN kwargs["entity_id"]
    ELSE NoTarget

\* the service data of the call: kwargs without the target and without
\* domovoy_drop_target, and with service_data_entity_id renamed to entity_id
call_service_data(kwargs) ==
    LET k1 == IF call_service_entity_id(kwargs) # NoTarget
              THEN kwargs_pop(kwargs, "entity_id") ELSE kwargs
        k2 == kwargs_pop(k1, "domovoy_drop_target")
    IN  IF "service_data_entity_id" \in DOMAIN k2
        THEN kwargs_set(kwargs_pop(k2, "service_data_entity_id"), "entity_id",
                        k2["service_data_entity_id"])
        ELSE k2

\* HassWebsocketApi.call_service: the command of one call
call_service_command(service_name, kwargs, return_response) ==
    [service_name |-> service_name,
     service_data |-> call_service_data(kwargs),
     target |-> call_service_entity_id(kwargs),
     return_response |-> return_response]

\* an app calls hass.call_service(service_name, **kwargs): the facade sends the
\* command and waits for its result
CallService(service_name, kwargs, throw_on_error, status) ==
    /\ service_call = NoCall
    /\ service_call' = [state |-> "awaiting", service_name |-> service_name,
                        kwargs |-> call_service_data(kwargs),
                        throw_on_error |-> throw_on_error, status |-> status, depth |-> 1]
    /\ service_commands' = <<call_service_command(service_name, kwargs, FALSE)>>
    /\ UNCHANGED notService

\* the result of the command arrives and call_service returns it
CallServiceReturns ==
    /\ service_call.state = "awaiting"
    /\ service_call' = [service_call EXCEPT !.state = "returned"]
    /\ UNCHANGED <<service_commands, notService>>

\* the command fails with HassApiCommandError(message): raised to the app, or
\* retried with return_response=True and the kwargs as the first pass left them,
\* or logged
CallServiceRaises(message) ==
    /\ service_call.state = "awaiting"
    /\ message = RequiresResponses
          => ~service_commands[Len(service_commands)].return_response
    /\ IF service_call.throw_on_error \/ service_call.status = "INITIALIZING"
       THEN /\ service_call' = [service_call EXCEPT !.state = "raised"]
            /\ UNCHANGED service_commands
       ELSE IF message = RequiresResponses
       THEN /\ service_call' = [service_call EXCEPT
                                   !.kwargs = call_service_data(@), !.depth = @ + 1]
            /\ service_commands' =
                  Append(service_commands,
                         call_service_command(service_call.service_name,
                                              service_call.kwargs, TRUE))
       ELSE /\ service_call' = [service_call EXCEPT !.state = "logged"]
            /\ UNCHANGED service_commands
    /\ UNCHANGED notService

\* ------------------------------------------------------------------------
\* EventListener.publish_event and the gather of its calls
\* (core/services/event_listener.py)
\* ------------------------------------------------------------------------

\* one call of a subscriber: the coroutine that publish_event made and that gather
\* wrapped in a task
GatherCall(gather, id, state) == [gather |-> gather, callback_id |-> id, state |-> state]

\* the calls of the subscribers of event e, as asyncio.gather starts them
gather_calls_of(gather, e) ==
    {GatherCall(gather, id, "scheduled") : id \in registered_callbacks_by_event[e]}

\* a gather that cancels the calls that have not run when one call raises
gather_call_raised_cancels(calls, c) ==
    {IF d = c THEN [d EXCEPT !.state = "raised"]
     ELSE IF d.gather = c.gather /\ d.state = "scheduled" THEN [d EXCEPT !.state = "cancelled"]
     ELSE d : d \in calls}

\* asyncio.gather without return_exceptions: the exception of a call is set on the
\* future of the gather, and the other calls go on
gather_call_raised(calls, c) ==
    {IF d = c THEN [d EXCEPT !.state = "raised"] ELSE d : d \in calls}

\* publish_event(event_name, event_data) while the EventListener is running: one
\* coroutine per subscriber of the event, gathered in a future that nothing awaits
PublishEventGather(e) ==
    /\ sync = <<>>
    /\ Len(gathers) < MaxGathers
    /\ registered_callbacks_by_event[e] # {}
    /\ gathers' = Append(gathers, [event_name |-> e,
                                   subscribers |-> registered_callbacks_by_event[e],
                                   state |-> "pending"])
    /\ gather_calls' = gather_calls \cup gather_calls_of(Len(gathers) + 1, e)
    /\ UNCHANGED notGather

\* the future of gather n after its calls changed to calls
gather_state(n, state, calls) ==
    IF state # "pending" THEN state
    ELSE IF \E d \in calls : d.gather = n /\ d.state = "raised" THEN "raised"
    ELSE IF \A d \in calls : d.gather = n => d.state = "returned" THEN "done"
    ELSE "pending"

\* the event loop runs the task of one call, to its end
SubscriberRuns(c, outcome) ==
    /\ sync = <<>>
    /\ c \in gather_calls
    /\ c.state = "scheduled"
    /\ gather_calls' = IF outcome = "raises"
                       THEN gather_call_raised(gather_calls, c)
                       ELSE (gather_calls \ {c}) \cup {[c EXCEPT !.state = "returned"]}
    /\ gathers' = [gathers EXCEPT ![c.gather].state = gather_state(c.gather, @, gather_calls')]
    /\ UNCHANGED notGather

\* ------------------------------------------------------------------------
\* CallbacksPlugin entity listeners (plugins/callbacks/__init__.py)
\* ------------------------------------------------------------------------

\* the old_state / new_state of a state_changed event: missing or null (<<>>), or one
\* state dict, whose attribute is None when the attributes dict does not have it
StateDicts ==
    {<<>>} \cup {<<[state |-> s, brightness |-> b]>> :
                    s \in StateValues, b \in AttributeValues \cup {None}}

\* event_data of a state_changed event
EventData == [entity_id : EntityIds, old_state : StateDicts, new_state : StateDicts]

\* old_state.get("state", None), with old_state = event_data.get("old_state", {}) or {}
state_value(state_dict) ==
    IF state_dict = <<>> THEN None ELSE state_dict[1].state

\* old_state.get("attributes", {}).get(attribute, None)
attribute_value(state_dict) ==
    IF state_dict = <<>> THEN None ELSE state_dict[1].brightness

\* the comparison of listen_attribute_callback that has no effect
values_differ_never(old_value, new_value) == FALSE

\* the comparison of listen_attribute_callback: old_value == new_value returns
values_differ(old_value, new_value) == old_value # new_value

\* listen_attribute_callback up to the call of the user callback: the arguments of
\* the call it makes, or no call
listen_attribute_callback(attribute, event_data) ==
    CASE attribute = "all" ->
            <<[entity_id |-> event_data.entity_id, attribute |-> attribute,
               old |-> event_data.old_state, new |-> event_data.new_state]>>
      [] attribute = "state" ->
            IF values_differ(state_value(event_data.old_state),
                             state_value(event_data.new_state))
            THEN <<[entity_id |-> event_data.entity_id, attribute |-> attribute,
                    old |-> state_value(event_data.old_state),
                    new |-> state_value(event_data.new_state)]>>
            ELSE <<>>
      [] OTHER ->
            IF values_differ(attribute_value(event_data.old_state),
                             attribute_value(event_data.new_state))
            THEN <<[entity_id |-> event_data.entity_id, attribute |-> attribute,
                    old |-> attribute_value(event_data.old_state),
                    new |-> attribute_value(event_data.new_state)]>>
            ELSE <<>>

\* a state_changed event is handed to the listener of an attribute
ListenAttributeCallback(attribute, event_data) ==
    /\ listener_call' = <<[attribute |-> attribute, event_data |-> event_data,
                           call |-> listen_attribute_callback(attribute, event_data)]>>
    /\ UNCHANGED <<listeners, listener_tasks, task_seq, published, late_jobs, listener_runs>>
    /\ UNCHANGED waitVars
    /\ UNCHANGED notPlugins

ListenerFilterNext ==
    \E attribute \in ListenedAttributes, event_data \in EventData :
       ListenAttributeCallback(attribute, event_data)

\* the entity the apps listen to, and the event HassCore publishes for it
ListenedEntity == "light.k"
state_changed_event == "state_changed=light.k"
\* the event the apps pass to listen_event
ListenedEvent == "a"

\* the state_changed events published: the state changes, or only an attribute does
StateChangedEvents ==
    {[entity_id |-> ListenedEntity,
      old_state |-> <<[state |-> "off", brightness |-> None]>>,
      new_state |-> <<[state |-> "on", brightness |-> None]>>],
     [entity_id |-> ListenedEntity,
      old_state |-> <<[state |-> "on", brightness |-> None]>>,
      new_state |-> <<[state |-> "on", brightness |-> "high"]>>]}

\* the event_data immediate_callback builds from the cached state: no old_state
immediate_state_notification(state) ==
    [entity_id |-> ListenedEntity, old_state |-> <<>>,
     new_state |-> <<[state |-> state, brightness |-> None]>>]

\* what get_full_state of the entity returns: nothing, or its cached state
CachedStates == {<<>>, <<"on">>}

\* CallbackRegister.add_event_callback, id being the new id and cbs the
\* registrations with it
add_event_callback(c, cbs, w, status, id) ==
    IF status = RUNNING
    THEN register_all_callbacks([c EXCEPT !.event_callbacks = @ \cup {id}], cbs, w)
    ELSE [c EXCEPT !.event_callbacks = @ \cup {id}]

\* CallbackRegister.add_scheduler_callback
add_scheduler_callback(c, cbs, w, status, id) ==
    IF status = RUNNING
    THEN register_all_callbacks([c EXCEPT !.scheduler_callbacks = @ \cup {id},
                                          !.mappings = @ \cup {id}], cbs, w)
    ELSE [c EXCEPT !.scheduler_callbacks = @ \cup {id}, !.mappings = @ \cup {id}]

\* CallbackRegister.cancel_callback with the id as the callback got it: the id of
\* its registration ("event", "scheduler"), or an id that starts with
\* "ephemeral_callback", for which it returns at once
cancel_callback_by_id(c, cbs, w, status, callback_id, id) ==
    IF callback_id = "ephemeral" THEN c
    ELSE cancel_callback(c, cbs, w, status, id)

ListenerIds == 1..Len(listeners)

\* the listener a registration belongs to
listener_of(id) ==
    CHOOSE l \in ListenerIds : listeners[l].event_id = id \/ listeners[l].scheduler_id = id

\* the ids of the registrations the listeners made
ListenerCallbackIds ==
    {listeners[l].event_id : l \in ListenerIds} \cup {listeners[l].scheduler_id : l \in ListenerIds}

\* a call of a listener's callback that publish_event, the scheduler or
\* immediate_callback scheduled: it starts in handle_exception_and_logging's wrapper
ListenerTask(l, callback_id, event_data, seq) ==
    [listener |-> l, callback_id |-> callback_id, event_data |-> event_data,
     stage |-> "dispatched", seq |-> seq]

\* listen_state(entity, callback, immediate, oneshot): one event callback for
\* state_changed=<entity> and, with immediate, one scheduler callback that starts now
ListenState(w, oneshot, immediate) ==
    /\ sync = <<>>
    /\ w \in WrapperIds
    /\ UserCodeRuns(w)
    /\ Len(listeners) < MaxListeners
    /\ Len(callbacks) + (IF immediate THEN 2 ELSE 1) <= MaxCallbacks
    /\ LET status == wrappers[w].status
           event_id == Len(callbacks) + 1
           scheduler_id == Len(callbacks) + 2
           cbs1 == Append(callbacks, [wrapper |-> w, kind |-> "event",
                                      events |-> <<state_changed_event>>])
           cbs2 == Append(cbs1, [wrapper |-> w, kind |-> "scheduler", events |-> <<>>])
           c1 == add_event_callback(CallbackState, cbs1, w, status, event_id)
           c2 == add_scheduler_callback(c1, cbs2, w, status, scheduler_id)
       IN /\ callbacks' = IF immediate THEN cbs2 ELSE cbs1
          /\ SetCallbackState(IF immediate THEN c2 ELSE c1)
          /\ listeners' = Append(listeners,
                [wrapper |-> w, kind |-> "state", oneshot |-> oneshot,
                 event_id |-> event_id,
                 scheduler_id |-> IF immediate THEN scheduler_id ELSE 0,
                 deferred |-> status # RUNNING,
                 immediate |-> IF immediate THEN "pending" ELSE "none"])
    /\ UNCHANGED <<listener_tasks, task_seq, published, late_jobs, listener_runs>>
    /\ UNCHANGED notListeners

\* listen_event(event, callback, oneshot)
ListenEvent(w, oneshot) ==
    /\ sync = <<>>
    /\ w \in WrapperIds
    /\ UserCodeRuns(w)
    /\ Len(listeners) < MaxListeners
    /\ Len(callbacks) < MaxCallbacks
    /\ callbacks' = Append(callbacks, [wrapper |-> w, kind |-> "event",
                                       events |-> <<ListenedEvent>>])
    /\ SetCallbackState(add_event_callback(CallbackState, callbacks', w, wrappers[w].status,
                                           Len(callbacks) + 1))
    /\ listeners' = Append(listeners,
          [wrapper |-> w, kind |-> "event", oneshot |-> oneshot,
           event_id |-> Len(callbacks) + 1, scheduler_id |-> 0,
           deferred |-> wrappers[w].status # RUNNING, immediate |-> "none"])
    /\ UNCHANGED <<listener_tasks, task_seq, published, late_jobs, listener_runs>>
    /\ UNCHANGED notListeners

\* EventListener.publish_event of an event that has listeners: one call per
\* subscriber, gathered in a task of their own
PublishToListeners(e, event_data) ==
    /\ sync = <<>>
    /\ published < MaxPublished
    /\ registered_callbacks_by_event[e] # {}
    /\ published' = published + 1
    /\ task_seq' = task_seq + 1
    /\ listener_tasks' = listener_tasks \cup
          {ListenerTask(listener_of(id), "event", event_data, task_seq + 1) :
              id \in registered_callbacks_by_event[e]}
    /\ UNCHANGED <<listeners, late_jobs, listener_runs>>
    /\ UNCHANGED <<callbacks, callbackTables>>
    /\ UNCHANGED notListeners

\* HassCore publishes state_changed=<entity>
PublishStateChanged(event_data) == PublishToListeners(state_changed_event, <<event_data>>)

\* an app or a plugin publishes the event that listen_event listens to
PublishListenedEvent == PublishToListeners(ListenedEvent, <<>>)

\* more than the scheduler's misfire grace time passes; the scheduler has run the
\* jobs that were due by then, so this ages only the scheduler callbacks that are
\* not registered yet (start is the time of the call of add_scheduler_callback)
GraceTimePasses ==
    /\ sync = <<>>
    /\ jobs = {}
    /\ (scheduler_callbacks \ is_registered) \ late_jobs # {}
    /\ late_jobs' = late_jobs \cup (scheduler_callbacks \ is_registered)
    /\ UNCHANGED <<listeners, listener_tasks, task_seq, published, listener_runs>>
    /\ UNCHANGED <<callbacks, callbackTables>>
    /\ UNCHANGED notListeners

\* the scheduler processes the job of immediate_callback (no trigger, next_run_time
\* = start): it runs once, unless its run time is further back than the misfire
\* grace time, and the job is removed from the job store either way
ImmediateJobDue(id) ==
    /\ sync = <<>>
    /\ id \in jobs
    /\ id \in ListenerCallbackIds
    /\ jobs' = jobs \ {id}
    /\ IF id \in late_jobs
       THEN /\ listeners' = [listeners EXCEPT ![listener_of(id)].immediate = "missed"]
            /\ UNCHANGED <<listener_tasks, task_seq>>
       ELSE /\ listener_tasks' = listener_tasks \cup
                  {ListenerTask(listener_of(id), "scheduler", <<>>, task_seq + 1)}
            /\ task_seq' = task_seq + 1
            /\ UNCHANGED listeners
    /\ UNCHANGED <<published, late_jobs, listener_runs>>
    /\ UNCHANGED <<callbacks, event_callbacks, scheduler_callbacks, is_registered,
                   callback_to_wrapper_mappings, registered_callbacks_by_id,
                   registered_callbacks_by_event, register_calls>>
    /\ UNCHANGED notListeners

\* handle_exception_and_logging's wrapper of a listener's callback
ListenerWrapperRun(t) ==
    /\ sync = <<>>
    /\ t \in listener_tasks
    /\ t.stage = "dispatched"
    /\ listener_tasks' = (listener_tasks \ {t}) \cup
          (IF wrappers[listeners[t.listener].wrapper].status = RUNNING
           THEN {[t EXCEPT !.stage = "task_created"]} ELSE {})
    /\ UNCHANGED <<listeners, task_seq, published, late_jobs, listener_runs>>
    /\ UNCHANGED <<callbacks, callbackTables>>
    /\ UNCHANGED notListeners

\* the task of immediate_callback: one call of listen_attribute_callback under an
\* ephemeral id if the entity has a cached state, cancel_callback of the scheduler
\* callback, and the gather of the calls
ImmediateCallbackRun(t, eid_state) ==
    /\ sync = <<>>
    /\ t \in listener_tasks
    /\ t.stage = "task_created"
    /\ t.callback_id = "scheduler"
    /\ LET l == listeners[t.listener]
       IN SetCallbackState(cancel_callback_by_id(CallbackState, callbacks, l.wrapper,
                              wrappers[l.wrapper].status, t.callback_id, l.scheduler_id))
    /\ listener_tasks' = (listener_tasks \ {t}) \cup
          (IF eid_state # <<>>
           THEN {ListenerTask(t.listener, "ephemeral",
                              <<immediate_state_notification(eid_state[1])>>, task_seq + 1)}
           ELSE {})
    /\ task_seq' = task_seq + 1
    /\ listeners' = [listeners EXCEPT ![t.listener].immediate =
                        IF eid_state # <<>> THEN "cached" ELSE "not_cached"]
    /\ UNCHANGED <<published, late_jobs, listener_runs, callbacks>>
    /\ UNCHANGED notListeners

\* the event passes the filter of the listener's callback
listener_delivers(l, event_data) ==
    \/ l.kind = "event"
    \/ listen_attribute_callback("state", event_data[1]) # <<>>

\* the id is in an index of the event bus
in_event_bus(c, id) ==
    \/ id \in c.by_id
    \/ \E e \in EventNames : id \in c.by_event[e]

\* the task of listen_attribute_callback / listen_event_callback: the filter, with
\* oneshot cancel_callback(callback_id), and then the user callback, which starts
\* in the same step
ListenerCallbackRun(t) ==
    /\ sync = <<>>
    /\ t \in listener_tasks
    /\ t.stage = "task_created"
    /\ t.callback_id # "scheduler"
    /\ listeners[t.listener].kind # "wait"
    /\ listener_tasks' = listener_tasks \ {t}
    /\ LET l == listeners[t.listener]
           c == IF l.oneshot
                THEN cancel_callback_by_id(CallbackState, callbacks, l.wrapper,
                        wrappers[l.wrapper].status, t.callback_id, l.event_id)
                ELSE CallbackState
       IN IF listener_delivers(l, t.event_data)
          THEN /\ SetCallbackState(c)
               /\ listener_runs' =
                     IF c.raised THEN listener_runs
                     ELSE Append(listener_runs,
                             [listener |-> t.listener, callback_id |-> t.callback_id,
                              in_table |-> l.event_id \in c.event_callbacks,
                              in_bus |-> in_event_bus(c, l.event_id),
                              published |-> published])
          ELSE UNCHANGED <<callbackTables, listener_runs>>
    /\ UNCHANGED <<listeners, task_seq, published, late_jobs, callbacks>>
    /\ UNCHANGED notListeners

\* ------------------------------------------------------------------------
\* HassPlugin.wait_for_state_to_be (plugins/hass/__init__.py) and EntityState
\* (plugins/hass/core.py)
\* ------------------------------------------------------------------------

\* EntityState.get_time_in_current_state
get_time_in_current_state(entity_state) == now - entity_state.last_changed

\* EntityState.has_been_in_state_for_at_least
has_been_in_state_for_at_least(entity_state, target_states, duration) ==
    /\ entity_state.state \in target_states
    /\ now >= entity_state.last_changed + duration

\* EntityState.has_been_in_current_state_for_at_least
has_been_in_current_state_for_at_least(entity_state, duration) ==
    has_been_in_state_for_at_least(entity_state, {entity_state.state}, duration)

\* __wait_for_state_to_be_implementation: the future, and
\* listen_state_extended(entity_id, state_callback, immediate=True)
WaitForStateToBe(w, duration) ==
    /\ sync = <<>>
    /\ w \in WrapperIds
    /\ UserCodeRuns(w)
    /\ Len(listeners) < MaxListeners
    /\ Len(callbacks) + 2 <= MaxCallbacks
    /\ wait_future = "none"
    /\ LET status == wrappers[w].status
           event_id == Len(callbacks) + 1
           scheduler_id == Len(callbacks) + 2
           cbs1 == Append(callbacks, [wrapper |-> w, kind |-> "event",
                                      events |-> <<state_changed_event>>])
           cbs2 == Append(cbs1, [wrapper |-> w, kind |-> "scheduler", events |-> <<>>])
           c1 == add_event_callback(CallbackState, cbs1, w, status, event_id)
           c2 == add_scheduler_callback(c1, cbs2, w, status, scheduler_id)
       IN /\ callbacks' = cbs2
          /\ SetCallbackState(c2)
          /\ listeners' = Append(listeners,
                [wrapper |-> w, kind |-> "wait", oneshot |-> FALSE,
                 event_id |-> event_id, scheduler_id |-> scheduler_id,
                 deferred |-> status # RUNNING, immediate |-> "pending"])
    /\ wait_future' = "pending"
    /\ wait_duration' = duration
    /\ UNCHANGED <<now, wait_entity, wait_sleepers, wait_completion>>
    /\ UNCHANGED <<listener_tasks, task_seq, published, late_jobs, listener_runs>>
    /\ UNCHANGED notWaits

\* half a second passes; what is scheduled on the event loop and the sleeps that
\* are over have run by then
Tick ==
    /\ sync = <<>>
    /\ now < MaxTime
    /\ listener_tasks = {}
    /\ jobs = {}
    /\ \A sl \in wait_sleepers : sl.wake_at > now
    /\ now' = now + 1
    /\ UNCHANGED <<wait_entity, wait_duration, wait_future, wait_sleepers, wait_completion>>
    /\ UNCHANGED listenerVars
    /\ UNCHANGED notPlugins

\* the entity changes its state: HassCore stores the new state and publishes
\* state_changed=<entity>
EntityStateChanges(state) ==
    /\ sync = <<>>
    /\ published < MaxPublished
    /\ listener_tasks = {}
    /\ state # wait_entity.state
    /\ wait_entity' = [state |-> state, last_changed |-> now]
    /\ published' = published + 1
    /\ task_seq' = task_seq + 1
    /\ listener_tasks' = listener_tasks \cup
          {ListenerTask(listener_of(id), "event",
                        <<[entity_id |-> ListenedEntity,
                           old_state |-> <<[state |-> wait_entity.state, brightness |-> None]>>,
                           new_state |-> <<[state |-> state, brightness |-> None]>>]>>,
                        task_seq + 1) :
              id \in registered_callbacks_by_event[state_changed_event]}
    /\ UNCHANGED <<now, wait_duration, wait_future, wait_sleepers, wait_completion>>
    /\ UNCHANGED <<listeners, late_jobs, listener_runs, listener_call>>
    /\ UNCHANGED notPlugins

\* immediate_callback of the wait's listener, with the cached state of the entity
WaitImmediateCallbackRun(t) ==
    /\ listeners[t.listener].kind = "wait"
    /\ ImmediateCallbackRun(t, <<wait_entity.state>>)

\* cancel_callback(callback_id) and future.set_result(None) of state_callback
complete_wait(t_listener, callback_id) ==
    /\ LET l == listeners[t_listener]
       IN SetCallbackState(cancel_callback_by_id(CallbackState, callbacks, l.wrapper,
                              wrappers[l.wrapper].status, callback_id, l.event_id))
    /\ wait_future' = "done"
    /\ wait_completion' = IF wait_future = "done" THEN wait_completion
                          ELSE <<[state |-> wait_entity.state,
                                  held |-> get_time_in_current_state(wait_entity)]>>

\* the task of listen_attribute_callback of the wait's listener, and state_callback
\* up to its sleep or its end
StateCallbackRun(t) ==
    /\ sync = <<>>
    /\ t \in listener_tasks
    /\ t.stage = "task_created"
    /\ t.callback_id # "scheduler"
    /\ listeners[t.listener].kind = "wait"
    /\ listener_tasks' = listener_tasks \ {t}
    /\ IF /\ listen_attribute_callback("state", t.event_data[1]) # <<>>
          /\ state_value(t.event_data[1].new_state) \in TargetStates
          /\ wait_future # "done"
       THEN IF /\ wait_duration # 0
               /\ ~has_been_in_current_state_for_at_least(wait_entity, wait_duration)
            THEN /\ wait_sleepers' = wait_sleepers \cup
                       {[listener |-> t.listener, callback_id |-> t.callback_id,
                         wake_at |-> now + (wait_duration
                                              - get_time_in_current_state(wait_entity))
                                         + SleepMargin]}
                 /\ UNCHANGED <<callbackTables, wait_future, wait_completion>>
            ELSE /\ complete_wait(t.listener, t.callback_id)
                 /\ UNCHANGED wait_sleepers
       ELSE UNCHANGED <<callbackTables, wait_future, wait_completion, wait_sleepers>>
    /\ UNCHANGED <<now, wait_entity, wait_duration>>
    /\ UNCHANGED <<listeners, task_seq, published, late_jobs, listener_runs, callbacks>>
    /\ UNCHANGED notWaits

\* state_callback after its sleep
StateCallbackWakes(sl) ==
    /\ sync = <<>>
    /\ sl \in wait_sleepers
    /\ sl.wake_at <= now
    /\ wait_sleepers' = wait_sleepers \ {sl}
    /\ IF has_been_in_current_state_for_at_least(wait_entity, wait_duration)
       THEN complete_wait(sl.listener, sl.callback_id)
       ELSE UNCHANGED <<callbackTables, wait_future, wait_completion>>
    /\ UNCHANGED <<now, wait_entity, wait_duration>>
    /\ UNCHANGED <<listeners, listener_tasks, task_seq, published, late_jobs, listener_runs,
                   callbacks>>
    /\ UNCHANGED notWaits

\* the state after construction: HassCore.__init__, HassWebsocketApi.__init__ and start()
Init ==
    /\ entity_state_cache = [e \in EntityIds |-> NoState]
    /\ hass_last_updated = [e \in EntityIds |-> 0]
    /\ hass_present = [e \in EntityIds |-> FALSE]
    /\ ws_frames = <<>>
    /\ get_states_pending = FALSE
    /\ setup_result = <<>>
    /\ api_pc = "dialing"
    /\ is_running = TRUE
    /\ current_op_id = FirstOpId
    /\ in_flight_ops = EmptyMap
    /\ cmd_queue = <<>>
    /\ futures = <<>>
    /\ hass_received = {}
    /\ ws_results = <<>>
    /\ app_registrations = {}
    /\ active_instance = [a \in AppNames |-> 0]
    /\ wrappers = <<>>
    /\ sync = <<>>
    /\ start_tasks = {}
    /\ terminations = {}
    /\ apps_by_path = [f \in Files |-> {}]
    /\ register_tasks = <<>>
    /\ register_rejected = {}
    /\ registration_id = [a \in AppNames |-> 0]
    /\ fs_imports = [f \in Files |-> {}]
    /\ imports = [f \in Files |-> <<>>]
    /\ imported_by = [f \in Files |-> <<>>]
    /\ module = [f \in Files |-> FALSE]
    /\ file_task = <<>>
    /\ file_changes = <<>>
    /\ last_change = <<>>
    /\ reload_reason = "init"
    /\ hass_api_pc = "dialing"
    /\ conn_id = 1
    /\ receiver_pc = "idle"
    /\ handlers = {}
    /\ cache_loaded_conn = 0
    /\ callbacks = <<>>
    /\ event_callbacks = {}
    /\ scheduler_callbacks = {}
    /\ is_registered = {}
    /\ callback_to_wrapper_mappings = {}
    /\ registered_callbacks_by_id = {}
    /\ registered_callbacks_by_event = [e \in EventNames |-> {}]
    /\ jobs = {}
    /\ register_calls = EmptyMap
    /\ invocations = {}
    /\ last_body_run = <<>>
    /\ cancelled = {}
    /\ cancel_raised = {}
    /\ running_before_stop = {}
    /\ hass_started_handled = FALSE
    /\ active_at_loss = {}
    /\ listener_call = <<>>
    /\ listeners = <<>>
    /\ listener_tasks = {}
    /\ task_seq = 0
    /\ published = 0
    /\ late_jobs = {}
    /\ listener_runs = <<>>
    /\ now = 0
    /\ wait_entity = [state |-> "off", last_changed |-> 0]
    /\ wait_duration = 0
    /\ wait_future = "none"
    /\ wait_sleepers = {}
    /\ wait_completion = <<>>
    /\ fanned_out = <<>>
    /\ callback_outcome = <<>>
    /\ auth_rejected = {}
    /\ gathers = <<>>
    /\ schedule_calls = <<>>
    /\ dial_attempts = 0
    /\ service_call = NoCall
    /\ service_commands = <<>>
    /\ gather_calls = {}
    /\ closure_records = [imports |-> [f \in Files |-> <<>>],
                          imported_by |-> [f \in Files |-> <<>>]]
    /\ closure_call = [pc |-> "idle", direction |-> "imports", root |-> "lib.py"]
    /\ closure_stack = <<>>
    /\ closure_result = <<>>
    /\ sun_runs = <<>>
    /\ hass_run = "up"
    /\ listen_trigger_call = [pc |-> "idle", oneshot |-> FALSE, calls_service |-> FALSE]
    /\ trigger_commands = <<>>
    /\ trigger_frames = <<>>
    /\ trigger_subscribed = FALSE
    /\ trigger_events_sent = 0
    /\ api_event_callbacks = {}
    /\ trigger_reader = "reading"
    /\ trigger_callback = [pc |-> "none", command |-> 0]
    /\ trigger_dropped = <<>>
    /\ trigger_ends = <<>>
    /\ watcher_now = 0
    /\ timers = <<>>
    /\ timer_per_file = [p \in WatchedPaths |-> 0]
    /\ watcher_events = <<>>
    /\ notified = <<>>

CacheSpec == Init /\ [][CacheNext]_vars

FanoutSpec == Init /\ [][FanoutNext]_vars

ReaderSpec == Init /\ [][ReaderNext]_vars

ListenerFilterSpec == Init /\ [][ListenerFilterNext]_vars

\* the listeners of one app: what the app registers, what is published and
\* scheduled, and the start of the app
ListenerNext ==
    \/ Reconnected
    \/ \E h \in handlers : SubscribeEventsResult(h)
    \/ \E h \in handlers : GetStatesResult(h)
    \/ \E a \in CallbackApps : RegisterApp(a)
    \/ InitializeApp
    \/ \E w \in WrapperIds : InitializeReturns(w)
    \/ \E w \in WrapperIds, oneshot \in BOOLEAN, immediate \in BOOLEAN :
          ListenState(w, oneshot, immediate)
    \/ \E w \in WrapperIds, oneshot \in BOOLEAN : ListenEvent(w, oneshot)
    \/ \E event_data \in StateChangedEvents : PublishStateChanged(event_data)
    \/ PublishListenedEvent
    \/ GraceTimePasses
    \/ \E id \in CallbackIds : ImmediateJobDue(id)
    \/ \E t \in listener_tasks : ListenerWrapperRun(t)
    \/ \E t \in listener_tasks, eid_state \in CachedStates : ImmediateCallbackRun(t, eid_state)
    \/ \E t \in listener_tasks : ListenerCallbackRun(t)

ListenerSpec == Init /\ [][ListenerNext]_vars

\* wait_for_state_to_be of one app, the changes of the entity and the time
WaitNext ==
    \/ Reconnected
    \/ \E h \in handlers : SubscribeEventsResult(h)
    \/ \E h \in handlers : GetStatesResult(h)
    \/ \E a \in CallbackApps : RegisterApp(a)
    \/ InitializeApp
    \/ \E w \in WrapperIds : InitializeReturns(w)
    \/ \E w \in WrapperIds, duration \in {0, WaitDuration} : WaitForStateToBe(w, duration)
    \/ Tick
    \/ \E state \in StateValues : EntityStateChanges(state)
    \/ \E id \in CallbackIds : ImmediateJobDue(id)
    \/ \E t \in listener_tasks : ListenerWrapperRun(t)
    \/ \E t \in listener_tasks : WaitImmediateCallbackRun(t)
    \/ \E t \in listener_tasks : StateCallbackRun(t)
    \/ \E sl \in wait_sleepers : StateCallbackWakes(sl)

WaitSpec == Init /\ [][WaitNext]_vars

ApiSpec == Init /\ [][ApiNext]_vars

\* the lifecycle of app instances: registration, initialize(), restart_app, and the
\* termination of every app on homeassistant_stop
LifecycleNext ==
    \/ Reconnected
    \/ \E h \in handlers : SubscribeEventsResult(h)
    \/ \E h \in handlers : GetStatesResult(h)
    \/ \E a \in AppNames : RegisterApp(a)
    \/ InitializeApp
    \/ \E w \in WrapperIds : InitializeReturns(w)
    \/ \E w \in WrapperIds : InitializeRaises(w)
    \/ TerminateAfterFailedStart
    \/ \E a \in AppNames : ReloadApp(a)
    \/ HassStopEvent
    \/ \E t \in terminations : TerminateBegin(t)
    \/ \E t \in terminations : FinalizeReturns(t)
    \/ ReceiverStopAppsDone

LifecycleSpec == Init /\ [][LifecycleNext]_vars

\* the callbacks of the apps: what the apps add and cancel, what is dispatched to
\* them, and the lifecycle steps that register and cancel them
CallbackNext ==
    \/ Reconnected
    \/ \E h \in handlers : SubscribeEventsResult(h)
    \/ \E h \in handlers : GetStatesResult(h)
    \/ \E a \in CallbackApps : RegisterApp(a)
    \/ InitializeApp
    \/ \E w \in WrapperIds : InitializeReturns(w)
    \/ \E w \in WrapperIds : InitializeRaises(w)
    \/ TerminateAfterFailedStart
    \/ \E a \in AppNames : ReloadApp(a)
    \/ \E t \in terminations : FinalizeReturns(t)
    \/ \E w \in WrapperIds, events \in EventLists : AddEventCallback(w, events)
    \/ \E w \in WrapperIds : AddSchedulerCallback(w)
    \/ \E w \in WrapperIds, id \in CallbackIds : CancelCallback(w, id)
    \/ \E e \in EventNames : PublishEvent(e)
    \/ \E id \in CallbackIds : JobDue(id)
    \/ \E v \in invocations : WrapperRun(v)
    \/ \E v \in invocations : TaskRun(v)

CallbackSpec == Init /\ [][CallbackNext]_vars

\* the lifecycle of the instances together with the callbacks their code adds
FinalizeNext ==
    \/ Reconnected
    \/ \E h \in handlers : SubscribeEventsResult(h)
    \/ \E h \in handlers : GetStatesResult(h)
    \/ \E a \in CallbackApps : RegisterApp(a)
    \/ InitializeApp
    \/ \E w \in WrapperIds : InitializeReturns(w)
    \/ \E w \in WrapperIds : InitializeRaises(w)
    \/ TerminateAfterFailedStart
    \/ \E a \in AppNames : ReloadApp(a)
    \/ HassStopEvent
    \/ \E t \in terminations : TerminateBegin(t)
    \/ \E t \in terminations : FinalizeReturns(t)
    \/ ReceiverStopAppsDone
    \/ \E w \in WrapperIds, events \in EventLists : AddEventCallback(w, events)
    \/ \E w \in WrapperIds : AddSchedulerCallback(w)

FinalizeSpec == Init /\ [][FinalizeNext]_vars

\* a restart of Home Assistant without a loss of the socket: homeassistant_stop,
\* then homeassistant_started; initialize() always succeeds
RestartNext ==
    \/ Reconnected
    \/ \E h \in handlers : SubscribeEventsResult(h)
    \/ \E h \in handlers : GetStatesResult(h)
    \/ \E a \in AppNames : RegisterApp(a)
    \/ \E t \in start_tasks : StartTaskRun(t)
    \/ InitializeApp
    \/ \E w \in WrapperIds : InitializeReturns(w)
    \/ HassStopEvent
    \/ \E t \in terminations : TerminateBegin(t)
    \/ \E t \in terminations : FinalizeReturns(t)
    \/ ReceiverStopAppsDone
    \/ ReceiverCallbackTimeout
    \/ HassStartedEvent

RestartSpec == Init /\ [][RestartNext]_vars

\* an unexpected loss of the socket and the reconnection; initialize() always succeeds
ReconnectNext ==
    \/ Reconnected
    \/ \E h \in handlers : SubscribeEventsResult(h)
    \/ \E h \in handlers : IsHassUpResult(h)
    \/ \E h \in handlers : GetStatesResult(h)
    \/ \E h \in handlers : StartAppsDone(h)
    \/ \E a \in AppNames : RegisterApp(a)
    \/ \E t \in start_tasks : StartTaskRun(t)
    \/ InitializeApp
    \/ \E w \in WrapperIds : InitializeReturns(w)
    \/ SocketDropped
    \/ \E t \in terminations : TerminateBegin(t)
    \/ \E t \in terminations : FinalizeReturns(t)
    \/ \E t \in terminations : FinalizeAwaitsCommand(t)
    \/ \E h \in handlers : DisconnectedHandlerResume(h)

\* the event loop runs every task that is ready, Home Assistant accepts the
\* connection and answers, and initialize() and finalize() return unless they await
\* something that never completes; what the apps and the network choose to do
\* (RegisterApp, SocketDropped, FinalizeAwaitsCommand) is not forced
ReconnectFairness ==
    /\ WF_vars(Reconnected)
    /\ WF_vars(\E h \in handlers : SubscribeEventsResult(h))
    /\ WF_vars(\E h \in handlers : IsHassUpResult(h))
    /\ WF_vars(\E h \in handlers : GetStatesResult(h))
    /\ WF_vars(\E h \in handlers : StartAppsDone(h))
    /\ WF_vars(\E t \in start_tasks : StartTaskRun(t))
    /\ WF_vars(InitializeApp)
    /\ WF_vars(\E w \in WrapperIds : InitializeReturns(w))
    /\ WF_vars(\E t \in terminations : TerminateBegin(t))
    /\ WF_vars(\E t \in terminations : FinalizeReturns(t))
    /\ WF_vars(\E h \in handlers : DisconnectedHandlerResume(h))

ReconnectSpec == Init /\ [][ReconnectNext]_vars /\ ReconnectFairness

\* the connections to Home Assistant, with authentications it rejects
AuthNext ==
    \/ ReconnectNext
    \/ AuthenticationRejected

AuthSpec == Init /\ [][AuthNext]_vars

\* a start of an app that fails, and the bulk start of the apps that follows a
\* restart of Home Assistant
FailedStartNext ==
    \/ RestartNext
    \/ \E w \in WrapperIds : InitializeRaises(w)
    \/ TerminateAfterFailedStart

FailedStartSpec == Init /\ [][FailedStartNext]_vars

\* the register_app calls of the app files: names that are registered twice, from
\* one file or from two, and starts that fail
RegisterNext ==
    \/ Reconnected
    \/ \E h \in handlers : SubscribeEventsResult(h)
    \/ \E h \in handlers : GetStatesResult(h)
    \/ \E a \in AppNames, path \in {AppFile[b] : b \in AppNames}, equal \in BOOLEAN :
          RegisterAppCalled(a, path, equal)
    \/ RegisterAppTask
    \/ InitializeApp
    \/ \E w \in WrapperIds : InitializeReturns(w)
    \/ \E w \in WrapperIds : InitializeRaises(w)
    \/ TerminateAfterFailedStart
    \/ \E t \in terminations : FinalizeReturns(t)

RegisterSpec == Init /\ [][RegisterNext]_vars

\* the callbacks an app adds during initialize(), while it runs and during finalize(),
\* and the starts and restarts that register them
DeferNext ==
    \/ Reconnected
    \/ \E h \in handlers : SubscribeEventsResult(h)
    \/ \E h \in handlers : GetStatesResult(h)
    \/ \E a \in CallbackApps : RegisterApp(a)
    \/ InitializeApp
    \/ \E w \in WrapperIds : InitializeReturns(w)
    \/ \E a \in AppNames : ReloadApp(a)
    \/ \E t \in terminations : FinalizeReturns(t)
    \/ \E w \in WrapperIds, events \in EventLists : AddEventCallback(w, events)
    \/ \E w \in WrapperIds : AddSchedulerCallback(w)

DeferSpec == Init /\ [][DeferNext]_vars

\* the files of the apps directory change, and the apps that they define are
\* terminated, registered and started
TrackerNext ==
    \/ \E path \in Files, new_imports \in SUBSET Files : ProcessFileChanged(path, new_imports)
    \/ FileTerminateApp
    \/ \E t \in terminations : FileFinalizeReturns(t)
    \/ RegisterAppTask
    \/ InitializeApp
    \/ \E w \in WrapperIds : InitializeReturns(w)

TrackerSpec == Init /\ [][TrackerNext]_vars

\* an app that schedules callbacks at datetimes and at intervals
ScheduleNext ==
    \/ Reconnected
    \/ \E h \in handlers : SubscribeEventsResult(h)
    \/ \E h \in handlers : GetStatesResult(h)
    \/ \E a \in CallbackApps : RegisterApp(a)
    \/ InitializeApp
    \/ \E w \in WrapperIds : InitializeReturns(w)
    \/ Tick
    \/ \E w \in WrapperIds, datetime \in 0..MaxTime : RunAt(w, datetime)
    \/ \E w \in WrapperIds, interval \in Intervals : RunEvery(w, interval)

ScheduleSpec == Init /\ [][ScheduleNext]_vars

\* the events published to the subscribers that the callbacks of an app are
GatherNext ==
    \/ Reconnected
    \/ \E h \in handlers : SubscribeEventsResult(h)
    \/ \E h \in handlers : GetStatesResult(h)
    \/ \E a \in CallbackApps : RegisterApp(a)
    \/ InitializeApp
    \/ \E w \in WrapperIds : InitializeReturns(w)
    \/ \E w \in WrapperIds, events \in EventLists : AddEventCallback(w, events)
    \/ \E e \in EventNames : PublishEventGather(e)
    \/ \E c \in gather_calls, outcome \in {"returns", "raises"} : SubscriberRuns(c, outcome)

GatherSpec == Init /\ [][GatherNext]_vars

\* the service calls of an app
ServiceNext ==
    \/ \E service_name \in {"weather.get_forecasts"}, kwargs \in Kwargs,
          throw_on_error \in BOOLEAN, status \in {"INITIALIZING", "RUNNING"} :
          CallService(service_name, kwargs, throw_on_error, status)
    \/ CallServiceReturns
    \/ \E message \in {RequiresResponses, OtherError} : CallServiceRaises(message)

ServiceSpec == Init /\ [][ServiceNext]_vars

\* the connection with dials that fail
StopNext ==
    \/ ApiNext
    \/ DialFailed

StopSpec == Init /\ [][StopNext]_vars

\* the status changes the lifecycle allows
AllowedTransitions ==
    {<<CREATED, INITIALIZING>>, <<INITIALIZING, RUNNING>>, <<RUNNING, FINALIZING>>,
     <<FINALIZING, TERMINATED>>, <<INITIALIZING, FAILED>>}

\* C4: the status of an app instance only changes along CREATED -> INITIALIZING ->
\* RUNNING -> FINALIZING -> TERMINATED or INITIALIZING -> FAILED, so FAILED and
\* TERMINATED are never left
StatusTransitionsAllowed ==
    [][\A w \in WrapperIds :
          wrappers'[w].status # wrappers[w].status
             => <<wrappers[w].status, wrappers'[w].status>> \in AllowedTransitions]_vars

\* C7: the body of a callback only runs while the status of its app is RUNNING
NoBodyRunWhileNotRunning ==
    \A k \in 1..Len(last_body_run) : last_body_run[k].status = RUNNING

\* the callback id is in an index of the event bus or in the job store
InBusOrScheduler(id) ==
    \/ id \in registered_callbacks_by_id
    \/ \E e \in EventNames : id \in registered_callbacks_by_event[e]
    \/ id \in jobs

\* C8: while finalize() of an instance is in progress, no callback of that instance
\* is registered in the event bus or in the scheduler
NoCallbackDuringFinalize ==
    \A t \in terminations :
       t.pc \in {"finalize", "finalize_blocked"}
          => \A id \in CallbackIds : callbacks[id].wrapper = t.wrapper => ~InBusOrScheduler(id)

\* C9: cancel_callback never raises, and cancelling an id that was cancelled before
\* changes neither the callback tables nor the event bus nor the scheduler
CancelIsIdempotentAndNeverRaises ==
    [][\A w \in WrapperIds, id \in CallbackIds :
          CancelCallback(w, id)
             => /\ cancel_raised' = cancel_raised
                /\ id \in cancelled =>
                      UNCHANGED <<event_callbacks, scheduler_callbacks, is_registered,
                                  registered_callbacks_by_id, registered_callbacks_by_event,
                                  jobs>>]_vars

\* C10: an id whose cancel_callback returned is in no callback table, in no index of
\* the event bus and not in the job store, and nothing dispatched after that runs it
CancelledCallbackIsGone ==
    \A id \in cancelled :
       /\ id \notin event_callbacks
       /\ id \notin scheduler_callbacks
       /\ ~InBusOrScheduler(id)
       /\ \A v \in invocations : v.callback_id = id => ~v.after_cancel
       /\ \A k \in 1..Len(last_body_run) :
             last_body_run[k].callback_id = id => ~last_body_run[k].after_cancel

\* nothing of the restart is still in progress after homeassistant_started was handled
RestartQuiescent ==
    /\ hass_started_handled
    /\ sync = <<>>
    /\ start_tasks = {}
    /\ terminations = {}
    /\ handlers = {}
    /\ receiver_pc = "idle"
    /\ \A w \in WrapperIds : wrappers[w].initialize \notin {"not_called", "running"}

\* C5: once homeassistant_stop and then homeassistant_started were handled and the
\* restart has run to its end, every app that was RUNNING before the stop is RUNNING
\* again under its name
RunningAgainAfterRestart ==
    RestartQuiescent => \A a \in running_before_stop : a \in RunningApps

\* C6: every instance that was active at an unexpected loss of the socket is
\* eventually TERMINATED; an app is only started from the CONNECTED handler after
\* get_states of the new connection was loaded; and when start_apps has returned,
\* every registered app has an instance
SocketLossRecovery ==
    /\ \A w \in 1..MaxInstances : (w \in active_at_loss) ~> (w \notin active_at_loss)
    /\ [][\A t \in start_tasks :
             (StartTaskRun(t) /\ t.origin = "connected") => cache_loaded_conn = conn_id]_vars
    /\ [][\A h \in handlers :
             StartAppsDone(h) => \A a \in app_registrations : a \in ActiveApps]_vars

\* C1: for every entity, a snapshot that replaces a cached snapshot never has an
\* older last_updated than the one it replaces (the cache never goes backwards)
CacheNeverGoesBackwards ==
    [][\A e \in EntityIds :
         (entity_state_cache[e] # NoState /\ entity_state_cache'[e] # NoState)
            => entity_state_cache'[e] >= entity_state_cache[e]]_vars

\* C2: the ids __send_command assigns are distinct and strictly increasing, and a future
\* completed from a frame was completed from the frame that carries its own id
OpIdCorrelation ==
    /\ \A i, j \in 1..Len(futures) : i < j => futures[i].op_id < futures[j].op_id
    /\ \A i \in 1..Len(futures) :
          futures[i].state \in {"result", "command_error"}
             => futures[i].response_id = futures[i].op_id

\* two commands of one connection were answered, the second before the first
OpIdCorrelationWitness ==
    /\ Len(futures) >= 3
    /\ futures[1].state = "pending"
    /\ futures[2].state = "result"
    /\ futures[3].state = "command_error"

\* C3: once the connection task has finished, no future created by send is pending
NoFutureLeftPending ==
    api_pc = "exited" => \A i \in 1..Len(futures) : futures[i].state # "pending"

\* C11: a state listener calls the user callback iff the old and the new state
\* differ, an attribute listener iff the old and the new value of the attribute
\* differ (a missing state dict or attribute counts as null), a listener of "all"
\* always; the call carries (entity_id, attribute, old, new)
ListenerDeliversIffChanged ==
    \A k \in 1..Len(listener_call) :
       LET c == listener_call[k]
           old == IF c.event_data.old_state = <<>> THEN None
                  ELSE IF c.attribute = "state" THEN c.event_data.old_state[1].state
                  ELSE c.event_data.old_state[1].brightness
           new == IF c.event_data.new_state = <<>> THEN None
                  ELSE IF c.attribute = "state" THEN c.event_data.new_state[1].state
                  ELSE c.event_data.new_state[1].brightness
       IN IF c.attribute = "all"
          THEN c.call = <<[entity_id |-> c.event_data.entity_id, attribute |-> "all",
                           old |-> c.event_data.old_state, new |-> c.event_data.new_state]>>
          ELSE /\ (c.call # <<>>) <=> (old # new)
               /\ c.call # <<>> =>
                     c.call = <<[entity_id |-> c.event_data.entity_id,
                                 attribute |-> c.attribute, old |-> old, new |-> new]>>

\* an attribute listener got an event in which only the attribute appeared, and
\* called the user callback with None as the old value
ListenerDeliversIffChangedWitness ==
    /\ listener_call # <<>>
    /\ listener_call[1].attribute = "brightness"
    /\ listener_call[1].event_data.old_state # <<>>
    /\ listener_call[1].event_data.old_state[1].brightness = None
    /\ listener_call[1].call # <<>>
    /\ listener_call[1].call[1].old = None
    /\ listener_call[1].call[1].new = "high"

\* C12: when the user callback of a oneshot listener starts, the listener's
\* registration is neither in the app's callback table nor in the event bus
OneshotDeregisteredBeforeBody ==
    \A k \in 1..Len(listener_runs) :
       listeners[listener_runs[k].listener].oneshot
          => ~listener_runs[k].in_table /\ ~listener_runs[k].in_bus

\* the calls of the user callback that listener l made
runs_of(l) == {k \in 1..Len(listener_runs) : listener_runs[k].listener = l}

\* C13: a oneshot state listener of one entity calls the user callback at most
\* once, whatever is published and also with immediate
OneshotStateListenerRunsOnce ==
    \A l \in ListenerIds :
       listeners[l].kind = "state" /\ listeners[l].oneshot => Cardinality(runs_of(l)) <= 1

\* the calls listener l made under the ephemeral id of the immediate notification
immediate_runs_of(l) == {k \in runs_of(l) : listener_runs[k].callback_id = "ephemeral"}

\* C14: a state listener with immediate, made while RUNNING or in initialize(),
\* calls the user callback once for the cached state under an ephemeral id: the
\* scheduler never discards the immediate call, there is never a second such call,
\* and when the entity was cached and nothing of the call is scheduled any more,
\* the call has been made
ImmediateFiresOnce ==
    \A l \in ListenerIds :
       listeners[l].kind = "state" /\ listeners[l].immediate # "none"
          => /\ listeners[l].immediate # "missed"
             /\ Cardinality(immediate_runs_of(l)) <= 1
             /\ (/\ listeners[l].immediate = "cached"
                 /\ \A t \in listener_tasks : t.listener = l => t.callback_id # "ephemeral")
                   => Cardinality(immediate_runs_of(l)) = 1

\* C15: the future of wait_for_state_to_be is completed only when the entity is in
\* one of the states waited for and, with a duration, has been in it for at least
\* the duration
WaitCompletesOnlyInTargetState ==
    \A k \in 1..Len(wait_completion) :
       /\ wait_completion[k].state \in TargetStates
       /\ wait_completion[k].held >= wait_duration

\* C16: when the future of wait_for_state_to_be is done, the event callback the
\* wait registered is neither in the app's callback table nor in the event bus
WaitListenerCancelledWhenDone ==
    wait_future = "done"
       => \A l \in ListenerIds :
             listeners[l].kind = "wait"
                => /\ listeners[l].event_id \notin event_callbacks
                   /\ ~in_event_bus(CallbackState, listeners[l].event_id)

\* C17: a state_changed=<entity_id> event that is published never carries a
\* last_updated older than the snapshot that was cached when its frame was read
\* (stale frames are not fanned out)
StaleUpdateNotFannedOut ==
    \A k \in 1..Len(fanned_out) :
       (fanned_out[k].new_state # NoState /\ fanned_out[k].cached # NoState)
          => fanned_out[k].new_state >= fanned_out[k].cached

\* C18: when a subscription callback called by the reader raises or runs into the
\* timeout, the reader keeps running (so the connection stays up and its in-flight
\* futures are not failed)
SubscriptionCallbackFailureTolerated ==
    \A k \in 1..Len(callback_outcome) :
       callback_outcome[k].outcome \in {"timeout", "raises"}
          => callback_outcome[k].reader_running

\* C19: a result frame for a pending command completes its future once, with the
\* result for success, with a command error for an error and for a failure without
\* an error, and the reader keeps running
ResultFrameClassifiesOnce ==
    [][ReceiverResult =>
          LET message == Head(ws_results)
              key == in_flight_key(message.id)
          IN (key \in DOMAIN in_flight_ops /\ ~future_done(futures[in_flight_ops[key]]))
                => /\ futures'[in_flight_ops[key]].state =
                         (IF message.kind = "success" THEN "result" ELSE "command_error")
                   /\ futures'[in_flight_ops[key]].response_id = message.id
                   /\ api_pc' = "listening"]_vars

\* C20: after Home Assistant rejected the authentication of a connection, no other
\* connection is dialled
NoDialAfterAuthRejection ==
    \A c \in auth_rejected : conn_id = c

\* C21: once initialize() has raised for a registration, initialize() is not called
\* for it again unless register_app registered the app afresh: the next instance of
\* the app, if it was not built by register_app, never gets to initialize()
NoInitializeAfterFailedStart ==
    \A w1 \in WrapperIds, w2 \in WrapperIds :
       (/\ w1 < w2
        /\ wrappers[w1].app_name = wrappers[w2].app_name
        /\ wrappers[w1].initialize = "raised"
        /\ \A w \in w1 + 1 .. w2 : wrappers[w].app_name = wrappers[w1].app_name
                                      => wrappers[w].started_by # "register")
          => wrappers[w2].initialize = "not_called"

\* C23: register_app of a name that is registered and has an active instance changes
\* neither the registration table nor the index by path nor an instance, and no name
\* ever has two instances that are not TERMINATED
RejectedRegistrationChangesNothing ==
    /\ [](\A w1 \in WrapperIds, w2 \in WrapperIds :
             (w1 # w2 /\ wrappers[w1].app_name = wrappers[w2].app_name)
                => (wrappers[w1].status = TERMINATED \/ wrappers[w2].status = TERMINATED))
    /\ [][(/\ register_tasks # <<>>
            /\ register_tasks' = Tail(register_tasks)
            /\ Head(register_tasks).app_name \in app_registrations
            /\ active_instance[Head(register_tasks).app_name] # 0)
              => UNCHANGED <<app_registrations, apps_by_path, active_instance, wrappers>>]_vars

\* a register_app call was rejected for an app whose instance is RUNNING
RejectedRegistrationWitness ==
    \E a \in register_rejected :
       /\ a \in app_registrations
       /\ active_instance[a] # 0
       /\ wrappers[active_instance[a]].status = RUNNING

\* instance w was terminated while its initialize() had not returned
TerminatedDuringInitialize(w) ==
    /\ w \in WrapperIds
    /\ wrappers[w].initialize = "running"
    /\ wrappers[w].status \in {FINALIZING, TERMINATED}

\* C27: an instance that was terminated while its initialize() was suspended does
\* not become RUNNING, and none of its callbacks is put in the event bus or in the
\* scheduler
NoRunningAfterTerminationDuringInitialize ==
    [][\A w \in WrapperIds :
          TerminatedDuringInitialize(w)
             => /\ wrappers'[w].status # RUNNING
                /\ \A id \in CallbackIds :
                      callbacks[id].wrapper = w => ~InBusOrScheduler(id)']_vars

\* callback id is where its registration puts it: a scheduler callback in the job
\* store, an event callback in the event bus under its id and under each of its events
FullyRegistered(id) ==
    IF callbacks[id].kind = "scheduler"
    THEN id \in jobs
    ELSE /\ id \in registered_callbacks_by_id
         /\ \A k \in 1..Len(callbacks[id].events) :
               id \in registered_callbacks_by_event[callbacks[id].events[k]]

\* C28: a callback added while its app is not RUNNING is stored with is_registered
\* false and is neither in the event bus nor in the scheduler; one added while the
\* app is RUNNING is registered in the same step; and in the step in which the app
\* becomes RUNNING every deferred callback of it is registered, exactly once
DeferredCallbacksRegisteredOnce ==
    /\ [][Len(callbacks') = Len(callbacks) + 1
             => \A id \in {Len(callbacks) + 1} :
                   /\ id \in event_callbacks' \cup scheduler_callbacks'
                   /\ IF wrappers[callbacks'[id].wrapper].status = RUNNING
                      THEN /\ id \in is_registered'
                           /\ FullyRegistered(id)'
                           /\ register_count(register_calls', id) = 1
                      ELSE /\ id \notin is_registered'
                           /\ ~InBusOrScheduler(id)'
                           /\ register_count(register_calls', id) = 0]_vars
    /\ [][\A w \in WrapperIds :
             (wrappers[w].status # RUNNING /\ wrappers'[w].status = RUNNING)
                => \A id \in CallbackIds :
                      (/\ callbacks[id].wrapper = w
                       /\ id \in event_callbacks \cup scheduler_callbacks
                       /\ id \notin is_registered)
                         => /\ id \in is_registered'
                            /\ FullyRegistered(id)'
                            /\ register_count(register_calls', id)
                                  = register_count(register_calls, id) + 1]_vars

\* an app that deferred a callback during initialize() is RUNNING, the callback is
\* registered, and a callback it added while RUNNING is registered too
DeferredCallbacksRegisteredWitness ==
    \E id1 \in CallbackIds, id2 \in CallbackIds :
       /\ id1 < id2
       /\ callbacks[id1].wrapper = callbacks[id2].wrapper
       /\ wrappers[callbacks[id1].wrapper].status = RUNNING
       /\ wrappers[callbacks[id1].wrapper].initialize = "returned"
       /\ register_count(register_calls, id1) = 1
       /\ callbacks[id1].kind = "scheduler"
       /\ callbacks[id2].kind = "event"
       /\ FullyRegistered(id1) /\ FullyRegistered(id2)
       /\ id1 \in is_registered /\ id2 \in is_registered

\* the calls of subscriber id that gather n made
calls_of(n, id) == {c \in gather_calls : c.gather = n /\ c.callback_id = id}

RetryCarriesSameCall ==
    /\ Len(service_commands) <= 2
    /\ Len(service_commands) = 2
          => service_commands[2] = [service_commands[1] EXCEPT !.return_response = TRUE]

\* C25: after stop() (__is_running is false while __connect_and_listen has not
\* ended) no dial is started and no reader or writer task is started
NoConnectionAfterStop ==
    [][~is_running /\ api_pc \in {"dialing", "authenticating"}
          => /\ dial_attempts' = dial_attempts
             /\ api_pc' # "listening"]_vars

\* C26: a run_at with a datetime earlier than the time of the call raised, a
\* run_every with an interval whose fields are all zero raised, and the step of a
\* call that raised added no registration and no job
SchedulerErrorAddsNothing ==
    /\ [](\A n \in 1..Len(schedule_calls) :
             LET c == schedule_calls[n]
             IN  /\ (c.op = "run_at" /\ c.datetime < c.at) => c.raised
                 /\ (c.op = "run_every" /\ c.interval = Interval(0, 0, 0)) => c.raised)
    /\ [][(Len(schedule_calls') = Len(schedule_calls) + 1
            /\ schedule_calls'[Len(schedule_calls')].raised)
             => UNCHANGED <<callbacks, callbackTables>>]_vars

\* a run_at in the past and a run_every with a zero interval of a RUNNING app raised
SchedulerErrorWitness ==
    /\ \E w \in WrapperIds : wrappers[w].status = RUNNING
    /\ \E n \in 1..Len(schedule_calls), m \in 1..Len(schedule_calls) :
          /\ schedule_calls[n].raised
          /\ schedule_calls[n].op = "run_at"
          /\ schedule_calls[n].datetime < schedule_calls[n].at
          /\ schedule_calls[m].raised
          /\ schedule_calls[m].op = "run_every"
          /\ schedule_calls[m].interval = Interval(0, 0, 0)

\* the files that import f in the sources as they are on disk
importers_on_disk(fs) == [f \in Files |-> {g \in Files : f \in fs[g]}]

\* C22: the step that processes the change of a file that has no app file among
\* the files it imports and the files that import it, directly or not, terminates
\* no app, starts no app and leaves the registrations as they are
ChangeWithoutAppFileChangesNothing ==
    [][Len(file_changes') = Len(file_changes) + 1
          => \A path \in {file_changes'[Len(file_changes')]} :
                (import_graph(fs_imports', {path}, Cardinality(Files))
                 \cup import_graph(importers_on_disk(fs_imports'), {path}, Cardinality(Files)))
                \cap AppFiles = {}
                   => /\ UNCHANGED <<app_registrations, apps_by_path, registration_id,
                                     active_instance, wrappers, terminations, start_tasks,
                                     register_tasks>>
                      /\ file_task' = <<>>
                      /\ sync' = <<>>]_vars

\* the change of a file that is no app file and has no app file near it was
\* processed while an app was RUNNING
ChangeWithoutAppFileWitness ==
    /\ last_change # <<>>
    /\ last_change[1].path \notin AppFiles
    /\ last_change[1].returned_early
    /\ file_changes[Len(file_changes)] = last_change[1].path
    /\ \E a \in ActiveApps : wrappers[active_instance[a]].status = RUNNING

\* every module of the list is in it once, and after the modules of the list that
\* it imports
leaves_first(list) ==
    /\ \A i \in 1..Len(list), j \in 1..Len(list) : i # j => list[i] # list[j]
    /\ \A i \in 1..Len(list), j \in 1..Len(list) :
          list[j] \in seq_range(imports[list[i]]) => j < i

\* C30: the list of the modules to load and the list of the modules to reload of a
\* file change are each in the order leaves first, and they are processed when no
\* termination of that change is left
ModulesProcessedLeavesFirst ==
    /\ last_change # <<>>
          => /\ leaves_first(last_change[1].load)
             /\ leaves_first(last_change[1].reload)
    /\ file_task = <<>> => \A t \in terminations : t.origin # "file_changed"

\* ------------------------------------------------------------------------
\* ReloadPythonFileWatcher (core/dependency_tracking/file_watcher.py)
\* ------------------------------------------------------------------------

\* path.endswith(".py")
endswith_py(path) == path \in {"lib.py", "one_apps.py"}

\* Timer.is_alive: the thread of the timer was started and has not ended
timer_is_alive(t) == t.state = "waiting"

\* a timer whose cancel() does nothing
timer_cancel_keeps_waiting(ts, i) == ts

\* Timer.cancel: the timer ends without calling its function
timer_cancel(ts, i) == [ts EXCEPT ![i].state = "cancelled"]

\* __process_event: the timers after the event on path at time t
process_event_timers(ts, per_file, path, is_deletion, t) ==
    IF ~endswith_py(path)
    THEN ts
    ELSE LET kept == IF per_file[path] # 0 /\ timer_is_alive(ts[per_file[path]])
                     THEN timer_cancel(ts, per_file[path])
                     ELSE ts
         IN  Append(kept, [path |-> path, is_deletion |-> is_deletion,
                           deadline |-> t + DebounceInterval, state |-> "waiting"])

\* __process_event: the timer the watcher keeps for each path after the event
process_event_per_file(ts, per_file, path) ==
    IF ~endswith_py(path) THEN per_file ELSE [per_file EXCEPT ![path] = Len(ts) + 1]

\* no timer is due: a timer thread runs at its deadline, before the watcher
\* thread handles an event of that instant and before the clock goes on
NoTimerDue == \A i \in 1..Len(timers) : timer_is_alive(timers[i]) => timers[i].deadline > watcher_now

WatcherEvent(path, is_deletion) ==
    [path |-> path, is_deletion |-> is_deletion, time |-> watcher_now]

\* on_created, on_modified (is_deletion false) and on_deleted (is_deletion true)
ProcessEvent(path, is_deletion) ==
    /\ Len(watcher_events) < MaxWatcherEvents
    /\ NoTimerDue
    /\ timers' = process_event_timers(timers, timer_per_file, path, is_deletion, watcher_now)
    /\ timer_per_file' = process_event_per_file(timers, timer_per_file, path)
    /\ watcher_events' = Append(watcher_events, WatcherEvent(path, is_deletion))
    /\ UNCHANGED <<watcher_now, notified, notWatcher>>

\* on_moved: a deletion of the source path, then a creation of the destination path
OnMoved(src_path, dest_path) ==
    /\ Len(watcher_events) + 1 < MaxWatcherEvents
    /\ NoTimerDue
    /\ src_path # dest_path
    /\ LET ts == process_event_timers(timers, timer_per_file, src_path, TRUE, watcher_now)
           pf == process_event_per_file(timers, timer_per_file, src_path)
       IN  /\ timers' = process_event_timers(ts, pf, dest_path, FALSE, watcher_now)
           /\ timer_per_file' = process_event_per_file(ts, pf, dest_path)
    /\ watcher_events' = watcher_events \o <<WatcherEvent(src_path, TRUE),
                                             WatcherEvent(dest_path, FALSE)>>
    /\ UNCHANGED <<watcher_now, notified, notWatcher>>

\* Timer.run at the end of the interval: __notify calls the callback
TimerFires(i) ==
    /\ timer_is_alive(timers[i])
    /\ timers[i].deadline <= watcher_now
    /\ timers' = [timers EXCEPT ![i].state = "finished"]
    /\ notified' = Append(notified, [path |-> timers[i].path,
                                     is_deletion |-> timers[i].is_deletion,
                                     time |-> watcher_now])
    /\ UNCHANGED <<watcher_now, timer_per_file, watcher_events, notWatcher>>

\* a quarter of a second passes
WatcherTick ==
    /\ watcher_now < MaxWatcherTime
    /\ NoTimerDue
    /\ watcher_now' = watcher_now + 1
    /\ UNCHANGED <<timers, timer_per_file, watcher_events, notified, notWatcher>>

WatcherNext ==
    \/ \E path \in WatchedPaths, is_deletion \in BOOLEAN : ProcessEvent(path, is_deletion)
    \/ \E src_path \in WatchedPaths, dest_path \in WatchedPaths : OnMoved(src_path, dest_path)
    \/ \E i \in 1..Len(timers) : TimerFires(i)
    \/ WatcherTick

WatcherSpec == Init /\ [][WatcherNext]_vars

\* the event is the last of its burst: no later event on its path came less than
\* the interval after it
last_of_burst(i) ==
    ~\E j \in (i + 1)..Len(watcher_events) :
        /\ watcher_events[j].path = watcher_events[i].path
        /\ watcher_events[j].time - watcher_events[i].time < DebounceInterval

\* C31: for every source file, each burst of events on it whose last event is
\* more than the interval old was notified exactly once, with the kind of its
\* last event and an interval after it, whatever happened on the other paths;
\* and nothing else is notified
OneNotificationPerBurst ==
    /\ \A i \in 1..Len(watcher_events) :
          /\ watcher_events[i].path \in {"lib.py", "one_apps.py"}
          /\ last_of_burst(i)
          /\ watcher_events[i].time + DebounceInterval < watcher_now
          => /\ Cardinality({k \in 1..Len(notified) :
                               /\ notified[k].path = watcher_events[i].path
                               /\ notified[k].time > watcher_events[i].time
                               /\ notified[k].time
                                     <= watcher_events[i].time + DebounceInterval}) = 1
             /\ \E k \in 1..Len(notified) :
                   notified[k] = [path |-> watcher_events[i].path,
                                  is_deletion |-> watcher_events[i].is_deletion,
                                  time |-> watcher_events[i].time + DebounceInterval]
    /\ \A k \in 1..Len(notified) :
          \E i \in 1..Len(watcher_events) :
             /\ last_of_burst(i)
             /\ notified[k] = [path |-> watcher_events[i].path,
                               is_deletion |-> watcher_events[i].is_deletion,
                               time |-> watcher_events[i].time + DebounceInterval]
    /\ \A k \in 1..Len(notified), m \in 1..Len(notified) :
          (k # m /\ notified[k].path = notified[m].path)
             => notified[k].time # notified[m].time

\* a burst of a change and a deletion on one file was notified once, as a
\* deletion, after another file was notified in the middle of the burst
BurstNotifiedOnceWitness ==
    /\ Len(watcher_events) = 3
    /\ watcher_events[1].path = "one_apps.py"
    /\ watcher_events[2].path = "lib.py" /\ ~watcher_events[2].is_deletion
    /\ watcher_events[3].path = "lib.py" /\ watcher_events[3].is_deletion
    /\ watcher_events[2].time = watcher_events[1].time + 1
    /\ watcher_events[3].time = watcher_events[2].time + 1
    /\ Len(notified) = 2
    /\ notified[1].path = "one_apps.py"
    /\ notified[1].time = watcher_events[3].time
    /\ notified[2] = [path |-> "lib.py", is_deletion |-> TRUE,
                      time |-> watcher_events[3].time + DebounceInterval]

\* a file change while Home Assistant stops: the bulk stop of the receiver and the
\* termination of the apps of the changed files, side by side
OverlapNext ==
    \/ Reconnected
    \/ \E h \in handlers : SubscribeEventsResult(h)
    \/ \E h \in handlers : GetStatesResult(h)
    \/ TrackerNext
    \/ HassStopEvent
    \/ \E t \in terminations : TerminateBegin(t)
    \/ \E t \in {u \in terminations : u.origin = "hass_stop"} : FinalizeReturns(t)
    \/ ReceiverStopAppsDone

OverlapSpec == Init /\ [][OverlapNext]_vars

\* C32: finalize() is called at most once for an instance: a step in which
\* __terminate_app calls finalize() of an instance finds an instance that is
\* neither in a finalize() call nor finalized already
FinalizeCalledOncePerInstance ==
    [][\A w \in WrapperIds :
          (\E t \in terminations' \ terminations : t.wrapper = w /\ t.pc = "finalize")
             => /\ wrappers[w].status \notin {FINALIZING, TERMINATED}
                /\ ~\E t \in terminations : t.wrapper = w /\ t.pc = "finalize"]_vars

\* C33: no live instance is orphaned: a step that gives a registration a new
\* instance or clears its active instance finds it without an active instance,
\* or leaves the instance that was active TERMINATED
InstanceBuiltOnlyWithoutActiveOne ==
    [][\A a \in AppNames :
          (active_instance[a] # 0 /\ active_instance'[a] # active_instance[a])
             => wrappers'[active_instance[a]].status = TERMINATED]_vars

\* ------------------------------------------------------------------------
\* HassPlugin.listen_trigger and the subscriptions of HassWebsocketApi
\* (plugins/hass/__init__.py, plugins/hass/api.py)
\* ------------------------------------------------------------------------

\* __send_command: the command gets the next id and a pending future
send_trigger_command(commands, type) ==
    Append(commands, [type |-> type, future |-> "pending", answered |-> FALSE,
                      in_flight |-> TRUE])

\* the id __send_command gave to the command
command_id(i) == i + FirstOpId - 1

\* listen_trigger of a RUNNING app: subscribe_trigger sends its command and awaits
\* the response
ListenTrigger(oneshot, calls_service) ==
    /\ listen_trigger_call.pc = "idle"
    /\ listen_trigger_call' = [pc |-> "awaits_subscribe", oneshot |-> oneshot,
                               calls_service |-> calls_service]
    /\ trigger_commands' = send_trigger_command(trigger_commands, "subscribe_trigger")
    /\ UNCHANGED <<trigger_frames, trigger_subscribed, trigger_events_sent,
                   api_event_callbacks, trigger_reader, trigger_callback, trigger_dropped,
                   trigger_ends, notSubscription>>

\* Home Assistant answers a command with a success result
HassAnswersTriggerCommand(i) ==
    /\ ~trigger_commands[i].answered
    /\ trigger_commands' = [trigger_commands EXCEPT ![i].answered = TRUE]
    /\ trigger_frames' = Append(trigger_frames, [id |-> command_id(i), type |-> "result"])
    /\ trigger_subscribed' = (IF trigger_commands[i].type = "subscribe_trigger" THEN TRUE
                              ELSE IF trigger_commands[i].type = "unsubscribe_events"
                              THEN FALSE ELSE trigger_subscribed)
    /\ UNCHANGED <<listen_trigger_call, trigger_events_sent, api_event_callbacks,
                   trigger_reader, trigger_callback, trigger_dropped, trigger_ends,
                   notSubscription>>

\* the trigger fires: Home Assistant sends an event frame with the id of the
\* subscribe command
HassTriggerFires ==
    /\ trigger_subscribed
    /\ trigger_events_sent < MaxTriggerEvents
    /\ trigger_events_sent' = trigger_events_sent + 1
    /\ trigger_frames' = Append(trigger_frames, [id |-> command_id(1), type |-> "event"])
    /\ UNCHANGED <<listen_trigger_call, trigger_commands, trigger_subscribed,
                   api_event_callbacks, trigger_reader, trigger_callback, trigger_dropped,
                   trigger_ends, notSubscription>>

\* hass_message_receiver, lines 273-317: a result frame completes the future of
\* its command unless the future is done
TriggerReaderResult ==
    /\ trigger_reader = "reading"
    /\ trigger_frames # <<>>
    /\ Head(trigger_frames).type = "result"
    /\ trigger_frames' = Tail(trigger_frames)
    /\ trigger_commands' =
          [i \in 1..Len(trigger_commands) |->
              IF command_id(i) = Head(trigger_frames).id /\ trigger_commands[i].in_flight
              THEN [trigger_commands[i] EXCEPT
                       !.in_flight = FALSE,
                       !.future = IF @ = "pending" THEN "result" ELSE @]
              ELSE trigger_commands[i]]
    /\ UNCHANGED <<listen_trigger_call, trigger_subscribed, trigger_events_sent,
                   api_event_callbacks, trigger_reader, trigger_callback, trigger_dropped,
                   trigger_ends, notSubscription>>

\* the user callback of listen_trigger, up to its first await or to its end: it
\* calls a service and awaits the response, or returns
instrumented_callback(calls_service) ==
    IF calls_service
    THEN /\ trigger_commands' = send_trigger_command(trigger_commands, "call_service")
         /\ trigger_callback' = [pc |-> "awaits_call_service",
                                 command |-> Len(trigger_commands) + 1]
         /\ trigger_reader' = "in_callback"
         /\ UNCHANGED trigger_ends
    ELSE /\ trigger_callback' = [pc |-> "none", command |-> 0]
         /\ trigger_reader' = "reading"
         /\ trigger_ends' = Append(trigger_ends, "completed")
         /\ UNCHANGED trigger_commands

\* hass_message_receiver, lines 209-262: an event frame without a callback of its
\* id is dropped with a warning; otherwise the reader awaits the callback under
\* wait_for(timeout=5); listen_trigger_callback of a oneshot trigger first
\* awaits unsubscribe_trigger
TriggerReaderEvent ==
    /\ trigger_reader = "reading"
    /\ trigger_frames # <<>>
    /\ Head(trigger_frames).type = "event"
    /\ trigger_frames' = Tail(trigger_frames)
    /\ IF Head(trigger_frames).id \notin api_event_callbacks
       THEN /\ trigger_dropped' = Append(trigger_dropped,
                                         [id |-> Head(trigger_frames).id,
                                          listen_trigger |-> listen_trigger_call.pc])
            /\ UNCHANGED <<trigger_commands, trigger_reader, trigger_callback, trigger_ends>>
       ELSE /\ UNCHANGED trigger_dropped
            /\ IF listen_trigger_call.oneshot
               THEN /\ trigger_commands' = send_trigger_command(trigger_commands,
                                                                "unsubscribe_events")
                    /\ trigger_callback' = [pc |-> "awaits_unsubscribe",
                                            command |-> Len(trigger_commands) + 1]
                    /\ trigger_reader' = "in_callback"
                    /\ UNCHANGED trigger_ends
               ELSE instrumented_callback(listen_trigger_call.calls_service)
    /\ UNCHANGED <<listen_trigger_call, trigger_subscribed, trigger_events_sent,
                   api_event_callbacks, notSubscription>>

\* subscribe_trigger after its await: the callback is stored under the id of the
\* response
subscribe_trigger_resumes ==
    /\ listen_trigger_call' = [listen_trigger_call EXCEPT !.pc = "subscribed"]
    /\ api_event_callbacks' = api_event_callbacks \cup {command_id(1)}
    /\ UNCHANGED <<trigger_commands, trigger_reader, trigger_callback, trigger_ends>>

\* listen_trigger_callback after an await: after unsubscribe_events the callback of
\* the subscription is popped and the user callback runs, after call_service the
\* user callback returns
listen_trigger_callback_resumes ==
    /\ IF trigger_callback.pc = "awaits_unsubscribe"
       THEN /\ api_event_callbacks' = api_event_callbacks \ {command_id(1)}
            /\ instrumented_callback(listen_trigger_call.calls_service)
       ELSE /\ trigger_callback' = [pc |-> "none", command |-> 0]
            /\ trigger_reader' = "reading"
            /\ trigger_ends' = Append(trigger_ends, "completed")
            /\ UNCHANGED <<trigger_commands, api_event_callbacks>>
    /\ UNCHANGED listen_trigger_call

\* the await of the future that __send_command returned: the future of command i
\* has a result and the coroutine that awaits it goes on
SendCommandResumes(i) ==
    /\ trigger_commands[i].future = "result"
    /\ \/ /\ listen_trigger_call.pc = "awaits_subscribe"
          /\ i = 1
          /\ subscribe_trigger_resumes
       \/ /\ trigger_callback.pc \in {"awaits_unsubscribe", "awaits_call_service"}
          /\ trigger_callback.command = i
          /\ listen_trigger_callback_resumes
    /\ UNCHANGED <<trigger_frames, trigger_subscribed, trigger_events_sent,
                   trigger_dropped, notSubscription>>

\* wait_for(timeout=5) of the reader: the callback is cancelled where it awaits,
\* which cancels the future of its command, and the reader reads on
TriggerCallbackTimeout ==
    /\ trigger_reader = "in_callback"
    /\ trigger_reader' = "reading"
    /\ trigger_commands' = [trigger_commands EXCEPT ![trigger_callback.command].future =
                               IF @ = "pending" THEN "cancelled" ELSE @]
    /\ trigger_callback' = [pc |-> "none", command |-> 0]
    /\ trigger_ends' = Append(trigger_ends, "cancelled")
    /\ UNCHANGED <<listen_trigger_call, trigger_frames, trigger_subscribed,
                   trigger_events_sent, api_event_callbacks, trigger_dropped,
                   notSubscription>>

\* the trigger of an app: the subscription, the frames of Home Assistant, the reader
\* and the callback it awaits
TriggerNext ==
    \/ \E oneshot \in BOOLEAN, calls_service \in BOOLEAN : ListenTrigger(oneshot, calls_service)
    \/ \E i \in 1..Len(trigger_commands) : HassAnswersTriggerCommand(i)
    \/ HassTriggerFires
    \/ TriggerReaderResult
    \/ TriggerReaderEvent
    \/ \E i \in 1..Len(trigger_commands) : SendCommandResumes(i)
    \/ TriggerCallbackTimeout

TriggerSpec == Init /\ [][TriggerNext]_vars

\* C34: a trigger callback that awaits the response of a command it sent gets the
\* response and runs to its end: no step cancels it, and the reader is never in
\* wait_for on a callback whose response is a frame that it has yet to read
TriggerCallbackGetsItsResponse ==
    [][trigger_callback.pc \in {"awaits_unsubscribe", "awaits_call_service"}
          => /\ Len(trigger_ends') > Len(trigger_ends)
                   => trigger_ends'[Len(trigger_ends')] = "completed"
             /\ ~(/\ trigger_reader = "in_callback"
                  /\ trigger_commands[trigger_callback.command].future = "pending")]_vars

\* C35: no event frame of an established subscription is dropped: the reader
\* drops no event frame of a subscription while subscribe_trigger, whose success
\* result came before the frame, has yet to store the callback
NoEventFrameDropped ==
    \A n \in 1..Len(trigger_dropped) :
       trigger_dropped[n].listen_trigger # "awaits_subscribe"

\* ------------------------------------------------------------------------
\* a restart of Home Assistant as HassCore sees it (plugins/hass/core.py)
\* ------------------------------------------------------------------------

\* Home Assistant begins to stop and the client gets homeassistant_stop
HassStops ==
    /\ hass_run = "up"
    /\ hass_run' = "stopping"
    /\ all_events_callback_stop
    /\ UNCHANGED notEngineHassSide

\* Home Assistant begins to stop; the client is not connected, or its reload
\* reason is not None and __all_events_callback does nothing
HassStopsUnseen ==
    /\ hass_run = "up"
    /\ hass_api_pc # "listening" \/ reload_reason # None
    /\ hass_run' = "stopping"
    /\ UNCHANGED <<engineVars, hassVars, historyVars, notEngineHassSide>>

\* Home Assistant is down once its sockets are closed, and comes up again: it
\* accepts connections while it starts
HassGoesDown ==
    /\ hass_run = "stopping"
    /\ hass_api_pc # "listening"
    /\ hass_run' = "down"
    /\ UNCHANGED <<engineVars, hassVars, historyVars, notEngineHassSide>>

HassBoots ==
    /\ hass_run = "down"
    /\ hass_run' = "starting"
    /\ UNCHANGED <<engineVars, hassVars, historyVars, notEngineHassSide>>

\* Home Assistant has started and the client gets homeassistant_started
HassStarts ==
    /\ hass_run = "starting"
    /\ hass_run' = "up"
    /\ all_events_callback_started
    /\ UNCHANGED notEngineHassSide

\* Home Assistant has started; the client is not connected and never gets the
\* event, or its reload reason is not "hass_restart" and __all_events_callback
\* does nothing
HassStartsUnseen ==
    /\ hass_run = "starting"
    /\ hass_api_pc # "listening" \/ reload_reason # "hass_restart"
    /\ hass_run' = "up"
    /\ UNCHANGED <<engineVars, hassVars, historyVars, notEngineHassSide>>

\* restarts of Home Assistant and losses of the socket, in any order
HassRestartNext ==
    \/ hass_run # "down" /\ Reconnected
    \/ \E h \in handlers : SubscribeEventsResult(h)
    \/ \E h \in handlers : IsHassUpResult(h)
    \/ \E h \in handlers : GetStatesResult(h)
    \/ \E h \in handlers : StartAppsDone(h)
    \/ \E a \in CallbackApps : RegisterApp(a)
    \/ \E t \in start_tasks : StartTaskRun(t)
    \/ InitializeApp
    \/ \E w \in WrapperIds : InitializeReturns(w)
    \/ SocketDropped
    \/ \E t \in terminations : TerminateBegin(t)
    \/ \E t \in terminations : FinalizeReturns(t)
    \/ ReceiverStopAppsDone
    \/ \E h \in handlers : DisconnectedHandlerResume(h)
    \/ HassStops
    \/ HassStopsUnseen
    \/ HassGoesDown
    \/ HassBoots
    \/ HassStarts
    \/ HassStartsUnseen

HassRestartSpec == Init /\ [][HassRestartNext]_vars

\* nothing of the runtime is under way: no handler of HassCore, no start and no
\* termination of an app, and the reader awaits a frame
HassCoreQuiescent ==
    /\ handlers = {}
    /\ receiver_pc = "idle"
    /\ start_tasks = {}
    /\ terminations = {}
    /\ sync = <<>>

\* C36: apps that the runtime stopped do not stay stopped: when the client is
\* connected to a Home Assistant that has started and nothing of the runtime is
\* under way, the reload reason is None and every registered app has an instance
StoppedAppsAreStartedAgain ==
    (hass_run = "up" /\ hass_api_pc = "listening" /\ HassCoreQuiescent
        /\ app_registrations # {})
       => /\ reload_reason = None
          /\ \A a \in app_registrations : active_instance[a] # 0

\* ------------------------------------------------------------------------
\* CallbacksPlugin.run_daily_on_sun_event (plugins/callbacks/__init__.py)
\* ------------------------------------------------------------------------

\* the registration of scheduled_callback with a DateTrigger; root is the id that
\* run_daily_on_sun_event returned to the app
SunCallback(w, root) ==
    [wrapper |-> w, kind |-> "scheduler", events |-> <<>>, root |-> root]

\* the registrations that run_daily_on_sun_event and its scheduled_callback made
SunCallbackIds == {id \in CallbackIds : "root" \in DOMAIN callbacks[id]}

\* run_daily_on_sun_event called by the code of wrapper w: add_scheduler_callback
\* of scheduled_callback at the next sun event, and its id is returned
RunDailyOnSunEvent(w) ==
    /\ sync = <<>>
    /\ w \in WrapperIds
    /\ UserCodeRuns(w)
    /\ ~\E id \in SunCallbackIds : callbacks[id].wrapper = w
    /\ callbacks' = Append(callbacks, SunCallback(w, Len(callbacks) + 1))
    /\ SetCallbackState(add_scheduler_callback(CallbackState, callbacks', w,
                                               wrappers[w].status, Len(callbacks) + 1))
    /\ UNCHANGED <<invocations, callbackHistoryVars>>
    /\ UNCHANGED <<engineVars, hassVars, historyVars, notCallbacks>>

\* the job of a sun event is due and leaves the scheduler (DateTrigger); the wrapper
\* of handle_exception_and_logging returns when the app is not RUNNING; otherwise
\* scheduled_callback adds a scheduler callback for the sun event of the next day,
\* without reuse_callback_id, and calls the user callback
SunEventJobDue(id) ==
    /\ sync = <<>>
    /\ id \in jobs
    /\ id \in SunCallbackIds
    /\ Len(sun_runs) < MaxSunRuns
    /\ IF wrappers[callbacks[id].wrapper].status # RUNNING
       THEN /\ jobs' = jobs \ {id}
            /\ UNCHANGED <<callbacks, event_callbacks, scheduler_callbacks, is_registered,
                           callback_to_wrapper_mappings, registered_callbacks_by_id,
                           registered_callbacks_by_event, register_calls, sun_runs>>
       ELSE /\ callbacks' = Append(callbacks,
                                   SunCallback(callbacks[id].wrapper, callbacks[id].root))
            /\ SetCallbackState(add_scheduler_callback(
                                    [CallbackState EXCEPT !.jobs = @ \ {id}], callbacks',
                                    callbacks[id].wrapper, RUNNING, Len(callbacks) + 1))
            /\ sun_runs' = Append(sun_runs,
                                  [callback_id |-> id,
                                   after_cancel |-> callbacks[id].root \in cancelled])
    /\ UNCHANGED <<invocations, callbackHistoryVars>>
    /\ UNCHANGED <<engineVars, hassVars, historyVars, notCallbacksSun>>

\* apps that run a callback daily on a sun event and cancel callbacks
SunNext ==
    \/ Reconnected
    \/ \E h \in handlers : SubscribeEventsResult(h)
    \/ \E h \in handlers : GetStatesResult(h)
    \/ \E a \in AppNames : RegisterApp(a)
    \/ InitializeApp
    \/ \E w \in WrapperIds : InitializeReturns(w)
    \/ \E w \in WrapperIds : RunDailyOnSunEvent(w)
    \/ \E id \in CallbackIds : SunEventJobDue(id)
    \/ \E w \in WrapperIds, id \in CallbackIds : CancelCallback(w, id)

SunSpec == Init /\ [][SunNext]_vars

\* C37: after cancel_callback with the id that run_daily_on_sun_event returned the
\* user callback is not called again
NoSunCallbackAfterCancel ==
    \A n \in 1..Len(sun_runs) : ~sun_runs[n].after_cancel

\* C38: the index by path and the registration table agree: every registration
\* object in the index of a path is the object that the table holds under its
\* name, and every registration of the table is in the index of a path
IndexAndTableAgree ==
    /\ \A f \in Files : \A r \in apps_by_path[f] :
          /\ r.app_name \in app_registrations
          /\ r.id = registration_id[r.app_name]
    /\ \A a \in app_registrations :
          \E f \in Files : Registration(a, registration_id[a]) \in apps_by_path[f]

\* ------------------------------------------------------------------------
\* the two indexes of the event bus (core/services/event_listener.py)
\* ------------------------------------------------------------------------

\* C39: the two indexes of the event bus agree: the id of an event callback is in
\* the table by id iff it is in the table of every event it listens to, and no
\* table of an event holds an id that the table by id does not hold
EventBusIndexesAgree ==
    /\ \A id \in CallbackIds :
          callbacks[id].kind = "event"
             => (id \in registered_callbacks_by_id
                   <=> \A k \in 1..Len(callbacks[id].events) :
                          id \in registered_callbacks_by_event[callbacks[id].events[k]])
    /\ \A e \in EventNames : registered_callbacks_by_event[e] \subseteq registered_callbacks_by_id

\* ------------------------------------------------------------------------
\* the closures of the dependency tracker, one call of the recursion per step
\* (core/dependency_tracking/dependency_tracker.py)
\* ------------------------------------------------------------------------

\* the frame of a call of __build_recursive_list_of_..._node(node, depth): nodes
\* starts as [(node, depth)] and k is the position of the loop
closure_frame(node, depth) ==
    [node |-> node, depth |-> depth, k |-> 1, nodes |-> << <<node, depth>> >>]

\* the list the loop of a frame runs over: node.imports or node.imported_by
closure_loop_list(frame) ==
    IF closure_call.direction = "imports"
    THEN closure_records.imports[frame.node]
    ELSE closure_records.imported_by[frame.node]

\* load_or_reload_filepath, lines 142-177, for one node of an import graph: the
\* record of the node takes the dependencies that ImportGraph.deps_list() names,
\* as they are
TrackDeps(node, deps) ==
    /\ closure_call.pc # "running"
    /\ closure_records' = set_imports(closure_records, node, deps)
    /\ closure_call' = [closure_call EXCEPT !.pc = "idle"]
    /\ closure_result' = <<>>
    /\ UNCHANGED closure_stack
    /\ UNCHANGED notClosure

\* load_or_reload_filepath line 181 and __get_files_to_unload line 368: the
\* outermost call, with depth 0
ClosureCalled(root, direction) ==
    /\ closure_call.pc # "running"
    /\ closure_call' = [pc |-> "running", direction |-> direction, root |-> root]
    /\ closure_stack' = << closure_frame(root, 0) >>
    /\ closure_result' = <<>>
    /\ UNCHANGED closure_records
    /\ UNCHANGED notClosure

\* the loop of the innermost frame calls the function for its next entry
ClosureRecursiveCall ==
    /\ closure_call.pc = "running"
    /\ LET top == closure_stack[Len(closure_stack)]
       IN  /\ top.k <= Len(closure_loop_list(top))
           /\ Len(closure_stack) < MaxRecursionDepth
           /\ closure_stack' = Append(closure_stack,
                                      closure_frame(closure_loop_list(top)[top.k],
                                                    top.depth + 1))
    /\ UNCHANGED <<closure_records, closure_call, closure_result>>
    /\ UNCHANGED notClosure

\* the call that would exceed the recursion limit raises RecursionError, which no
\* frame catches
ClosureRecursionError ==
    /\ closure_call.pc = "running"
    /\ LET top == closure_stack[Len(closure_stack)]
       IN  /\ top.k <= Len(closure_loop_list(top))
           /\ Len(closure_stack) = MaxRecursionDepth
    /\ closure_call' = [closure_call EXCEPT !.pc = "RecursionError"]
    /\ closure_stack' = <<>>
    /\ UNCHANGED <<closure_records, closure_result>>
    /\ UNCHANGED notClosure

\* the loop of the innermost frame is over and it returns nodes: the caller puts
\* the list before its own (imports) or after it (importers)
ClosureReturn ==
    /\ closure_call.pc = "running"
    /\ LET n == Len(closure_stack)
           top == closure_stack[n]
       IN  /\ top.k > Len(closure_loop_list(top))
           /\ IF n = 1
              THEN /\ closure_call' = [closure_call EXCEPT !.pc = "returned"]
                   /\ closure_result' = top.nodes
                   /\ closure_stack' = <<>>
              ELSE /\ closure_stack' =
                         [SubSeq(closure_stack, 1, n - 1) EXCEPT
                             ![n - 1].k = @ + 1,
                             ![n - 1].nodes = IF closure_call.direction = "imports"
                                              THEN top.nodes \o @ ELSE @ \o top.nodes]
                   /\ UNCHANGED <<closure_call, closure_result>>
    /\ UNCHANGED closure_records
    /\ UNCHANGED notClosure

ClosureNext ==
    \/ \E node \in Files, deps \in SUBSET Files : deps \subseteq Files \ {node} /\ TrackDeps(node, deps)
    \/ \E root \in Files, direction \in {"imports", "importers"} : ClosureCalled(root, direction)
    \/ ClosureRecursiveCall
    \/ ClosureRecursionError
    \/ ClosureReturn

ClosureSpec == Init /\ [][ClosureNext]_vars

====
